---- MODULE Spec2Model ----
(***************************************************************************)
(* CAMSim: a model of the propulsion system, the flight control system     *)
(* and the top-level simulation step.                                      *)
(*                                                                         *)
(* Numbers.  The program computes in float64.  The model computes in       *)
(* fixed point with the scales named below; the propulsion system's        *)
(* quantities are never negative and are divided with \div, signed         *)
(* quantities are divided with Div, which rounds towards zero.  float64    *)
(* rounding is not modelled.                                               *)
(*   throttle, running factor : tenths                                     *)
(*   manifold pressure        : hundredths of inHg                         *)
(*   pounds (thrust, fuel)    : hundredths of a pound                      *)
(*   time step dt             : milliseconds                               *)
(*   FCS signals and angles   : thousandths                                *)
(***************************************************************************)
EXTENDS Integers, Sequences, FiniteSets, TLC

VARIABLES
    ps,         \* the PropulsionSystem object
    nUpdates,   \* number of PropulsionSystem.Update calls made so far
    fcs,        \* the FlightControlSystem object
    fcs2,       \* the FlightControlSystem object of a second run
    ac,         \* the caller's AircraftState object
    last,       \* record of the last FlightControlSystem.Execute
    nExec,      \* number of Execute calls made so far
    calculator, \* the ForcesMomentsCalculator of the engine
    lastFuelWeight, \* LastFuelWeight of the engine
    ret,        \* record of the last RunSimulationStepWithPropulsion
    nSteps,     \* number of simulation steps made so far
    comp,       \* a component object driven on its own
    store,      \* a PropertyManager object driven on its own
    hist,       \* record of the last operation on comp or on pm
    nOps,       \* number of operations made on comp or on store
    mutex,      \* the RWMutex of store: the writer and the readers holding it
    goroutines, \* the goroutines working on store, with what each has yet to do
    adapt,      \* record of the last AdaptiveTimeStep.AdaptiveIntegrate
    integrator, \* an AdamsBashforth2Integrator object and the derivatives objects
    traj,       \* the trajectory integrated with it, and its last Integrate
    eval        \* record of the last evaluation of a function or a table

propVars == <<ps, nUpdates>>
fcsVars == <<fcs, fcs2, ac, last, nExec>>
stepVars == <<calculator, lastFuelWeight, ret, nSteps>>
libVars == <<comp, store, hist, nOps, mutex, goroutines, adapt>>
numVars == <<integrator, traj, eval>>
vars == <<propVars, fcsVars, stepVars, libVars, numVars>>

----------------------------------------------------------------------------
(* Helpers                                                                 *)

Min(a, b) == IF a < b THEN a ELSE b
Max(a, b) == IF a > b THEN a ELSE b
Abs(a) == IF a < 0 THEN -a ELSE a

\* a / b for b > 0, rounded towards zero
Div(a, b) == IF a >= 0 THEN a \div b ELSE -((-a) \div b)

\* the integer part of math.Sqrt(n)
ISqrt(n) == CHOOSE r \in 0..n : r * r <= n /\ (r + 1) * (r + 1) > n

RECURSIVE SumContents(_)
SumContents(tanks) ==
    IF tanks = <<>> THEN 0
    ELSE Head(tanks).Contents + SumContents(Tail(tanks))

----------------------------------------------------------------------------
(* Scales and bounds                                                       *)

MaxUpdates == 3

\* throttle inputs offered to Update (tenths); some lie outside [0, 1]
ThrottleInputs == {-5, 0, 1, 5, 10, 15}
\* time steps offered to Update (milliseconds): 0, 10 ms, 1 h, 10 h
DtInputs == {0, 10, 3600000, 36000000}

----------------------------------------------------------------------------
(* PropulsionSystem                                                        *)

\* configuration values of NewPropulsionSystem
MaxThrust    == 200
ReferenceRPM == 1260
ReferenceMAP == 81
MaxRPM  == 3000
IdleRPM == 800
MaxMAP  == 6100
IdleMAP == 1500
AtmosphericMAP == 2992
RunningFactorOff == 3
RunningFactorOn  == 10
\* the throttle clamp [0.0, 1.0] of Update and the start threshold 0.1
ThrottleMin == 0
ThrottleMax == 10
StartThreshold == 1
SecPerHour == 3600

Tank(number, capacity, contents, priority) ==
    [Number |-> number, Capacity |-> capacity, Contents |-> contents,
     Priority |-> priority]

\* the five tanks of createFuelSystemFromXML
XMLTanks ==
    << Tank(0, 55384, 39600, 1), Tank(1, 55384, 39600, 1),
       Tank(2, 51170, 0, 1), Tank(3, 45150, 0, 1), Tank(4, 45150, 0, 1) >>

\* FuelSystem.Tanks is an exported field: tank lists a caller can install.
\* The second and third lists carry distinct feed priorities.
TankLists ==
    { XMLTanks,
      << Tank(0, 55384, 30000, 2), Tank(1, 55384, 30000, 1) >>,
      << Tank(0, 55384, 20000, 1), Tank(1, 55384, 0, 3), Tank(2, 51170, 20000, 2) >> }

createFuelSystem(tanks) ==
    [Tanks |-> tanks, TotalContents |-> SumContents(tanks), FuelFlow |-> 0]

NewPropulsionSystem(tanks) ==
    [RunningFactor |-> RunningFactorOff,
     Engine |-> [IsRunning |-> FALSE, RPM |-> 0,
                 ManifoldPressure |-> AtmosphericMAP, ThrottlePosition |-> 0],
     Propeller |-> [RPM |-> 0, Thrust |-> 0, Torque |-> 0,
                    InducedVelocity |-> 0],
     FuelSystem |-> createFuelSystem(tanks)]

updateEngine_Shutdown(p, dt) ==
    LET running == p.Engine.ThrottlePosition > StartThreshold
        throttle == p.Engine.ThrottlePosition
        e1 == IF running
              THEN [p.Engine EXCEPT
                      !.IsRunning = TRUE,
                      !.RPM = IdleRPM + (throttle * (MaxRPM - IdleRPM)) \div ThrottleMax,
                      !.ManifoldPressure = IdleMAP + (throttle * (MaxMAP - IdleMAP)) \div ThrottleMax]
              ELSE [p.Engine EXCEPT !.IsRunning = FALSE, !.RPM = 0,
                                    !.ManifoldPressure = AtmosphericMAP]
    IN [p EXCEPT !.Engine = e1, !.Propeller.RPM = e1.RPM]

updateEngine(p, dt) ==
    LET running == p.Engine.IsRunning
                   \/ (~p.Engine.IsRunning /\ p.Engine.ThrottlePosition > StartThreshold)
        throttle == p.Engine.ThrottlePosition
        e1 == IF running
              THEN [p.Engine EXCEPT
                      !.IsRunning = TRUE,
                      !.RPM = IdleRPM + (throttle * (MaxRPM - IdleRPM)) \div ThrottleMax,
                      !.ManifoldPressure = IdleMAP + (throttle * (MaxMAP - IdleMAP)) \div ThrottleMax]
              ELSE [p.Engine EXCEPT !.RPM = 0, !.ManifoldPressure = AtmosphericMAP]
    IN [p EXCEPT !.Engine = e1, !.Propeller.RPM = e1.RPM]

\* running_factor x (rpm / ReferenceRPM) x (map / ReferenceMAP) x MaxThrust,
\* in hundredths of a pound; the two ratios are taken in thousandths
ThrustFormula(runningFactor, rpm, map) ==
    LET rpmFactor == (rpm * 1000) \div ReferenceRPM
        mapFactor == (map * 10) \div ReferenceMAP
    IN (((runningFactor * rpmFactor * mapFactor) \div 100) * MaxThrust) \div 1000

\* InducedVelocity = sqrt(Thrust / 0.5), in tenths of a foot per second
updatePropeller(p, dt) ==
    LET thrust == Max(0, ThrustFormula(p.RunningFactor, p.Propeller.RPM,
                                       p.Engine.ManifoldPressure))
    IN [p EXCEPT !.Propeller.Thrust = thrust,
                 !.Propeller.InducedVelocity =
                     IF thrust > 0 THEN ISqrt(2 * thrust) ELSE 0]

RECURSIVE consumeLoop_NoMin(_, _, _)
consumeLoop_NoMin(fs, i, remainingBurn) ==
    IF i > Len(fs.Tanks) THEN fs
    ELSE IF remainingBurn <= 0 \/ fs.Tanks[i].Contents <= 0
         THEN consumeLoop_NoMin(fs, i + 1, remainingBurn)
         ELSE LET burnFromTank == remainingBurn
              IN consumeLoop_NoMin(
                    [fs EXCEPT !.Tanks[i].Contents = @ - burnFromTank,
                               !.TotalContents = @ - burnFromTank],
                    i + 1, remainingBurn - burnFromTank)

\* the loop of consumeFuel, from tank i of the list on
RECURSIVE consumeLoop(_, _, _)
consumeLoop(fs, i, remainingBurn) ==
    IF i > Len(fs.Tanks) THEN fs
    ELSE IF remainingBurn <= 0 \/ fs.Tanks[i].Contents <= 0
         THEN consumeLoop(fs, i + 1, remainingBurn)
         ELSE LET burnFromTank == Min(remainingBurn, fs.Tanks[i].Contents)
              IN consumeLoop(
                    [fs EXCEPT !.Tanks[i].Contents = @ - burnFromTank,
                               !.TotalContents = @ - burnFromTank],
                    i + 1, remainingBurn - burnFromTank)

consumeFuel(fs, fuelBurn) == consumeLoop(fs, 1, fuelBurn)

\* FuelFlow * dt / 3600.0 with dt in milliseconds (whole seconds first, so
\* that the product stays within TLC's integers)
FuelBurn(fuelFlow, dt) ==
    (fuelFlow * (dt \div 1000) + (fuelFlow * (dt % 1000)) \div 1000) \div SecPerHour

\* an engine that stops when an Update finds every tank empty
updateFuelConsumption_Starved(p, dt) ==
    IF p.Engine.IsRunning /\ p.Propeller.Thrust > 0
    THEN IF p.FuelSystem.TotalContents = 0
         THEN [p EXCEPT !.Engine.IsRunning = FALSE,
                        !.FuelSystem.FuelFlow = 0]
         ELSE LET estimatedHP == (p.Propeller.Thrust * 3) \div 4
                  flow == estimatedHP \div 2
                  fs1 == [p.FuelSystem EXCEPT !.FuelFlow = flow]
              IN [p EXCEPT !.FuelSystem = consumeFuel(fs1, FuelBurn(flow, dt))]
    ELSE [p EXCEPT !.FuelSystem.FuelFlow = 0]

updateFuelConsumption(p, dt) ==
    IF p.Engine.IsRunning /\ p.Propeller.Thrust > 0
    THEN LET estimatedHP == (p.Propeller.Thrust * 3) \div 4
             flow == estimatedHP \div 2
             fs1 == [p.FuelSystem EXCEPT !.FuelFlow = flow]
         IN [p EXCEPT !.FuelSystem = consumeFuel(fs1, FuelBurn(flow, dt))]
    ELSE [p EXCEPT !.FuelSystem.FuelFlow = 0]

Update(p, throttleInput, dt) ==
    LET p1 == [p EXCEPT !.Engine.ThrottlePosition = Max(ThrottleMin, Min(ThrottleMax, throttleInput))]
        p2 == updateEngine(p1, dt)
        p3 == updatePropeller(p2, dt)
        p4 == updateFuelConsumption(p3, dt)
    IN [p4 EXCEPT !.RunningFactor =
            IF p4.Engine.IsRunning THEN RunningFactorOn ELSE RunningFactorOff]

----------------------------------------------------------------------------
(* AircraftState: the fields that the flight control system and the        *)
(* simulation step read or write                                           *)

NewControlInputs ==
    [Aileron |-> 0, Elevator |-> 0, Rudder |-> 0, Throttle |-> 0, Flaps |-> 0]

Vector3(x, y, z) == [X |-> x, Y |-> y, Z |-> z]

\* the state of NewAircraftState: level, 50 m/s along X, in the atmosphere of
\* 1000 m (density 1.112 kg/m^3, dynamic pressure 1390 Pa)
NewAircraftState ==
    [Time |-> 0,
     Velocity |-> Vector3(50000, 0, 0),
     AngularRate |-> Vector3(0, 0, 0),
     Roll |-> 0, Pitch |-> 0, Yaw |-> 0,
     Alpha |-> 0, Beta |-> 0,
     Density |-> 1112, TrueAirspeed |-> 50000, DynamicPressure |-> 1390,
     Forces |-> Vector3(0, 0, 0),
     Controls |-> NewControlInputs,
     ControlSurfaces |-> [AileronLeft |-> 0, AileronRight |-> 0,
                          Elevator |-> 0, Rudder |-> 0]]

\* AircraftState.SetControlInputs (the landing gear is not modelled)
AircraftState_SetControlInputs(state, controls) ==
    [state EXCEPT !.Controls = controls]

----------------------------------------------------------------------------
(* PropertyManager.  The store is restricted to the fcs/, attitude/ and    *)
(* angular properties; the atmosphere, airspeed, altitude and force        *)
(* properties, which go through unit conversions and are read by no        *)
(* component of either factory, are left out, and so are the writes of     *)
(* UpdateFromAircraftState to them.                                        *)

StandardProperties ==
    { "fcs/aileron-cmd-norm", "fcs/elevator-cmd-norm", "fcs/rudder-cmd-norm",
      "fcs/throttle-cmd-norm", "fcs/flap-cmd-norm", "fcs/speedbrake-cmd-norm",
      "fcs/gear-cmd-norm",
      "fcs/left-aileron-pos-rad", "fcs/right-aileron-pos-rad",
      "fcs/elevator-pos-rad", "fcs/rudder-pos-rad",
      "fcs/flap-pos-norm", "fcs/speedbrake-pos-norm",
      "velocities/alpha-rad", "velocities/beta-rad",
      "velocities/p-rad_sec", "velocities/q-rad_sec", "velocities/r-rad_sec",
      "attitude/phi-rad", "attitude/theta-rad", "attitude/psi-rad" }

NewPropertyManager ==
    [properties |-> [n \in StandardProperties |-> 0],
     aliases |-> [n \in {} |-> ""],
     listeners |-> [n \in {} |-> <<>>]]

Get(pm, name) ==
    LET n == IF name \in DOMAIN pm.aliases THEN pm.aliases[name] ELSE name
    IN IF n \in DOMAIN pm.properties THEN pm.properties[n] ELSE 0

\* what Set does to the store; the listener calls it posts are SetNotifies
Set(pm, name, value) ==
    LET n == IF name \in DOMAIN pm.aliases THEN pm.aliases[name] ELSE name
    IN [pm EXCEPT !.properties =
            [k \in (DOMAIN pm.properties) \cup {n} |->
                IF k = n THEN value ELSE pm.properties[k]]]

\* the listener calls that Set(name, value) posts on the store pm, in the
\* order of the go statements
SetNotifies(pm, name, value) ==
    LET n == IF name \in DOMAIN pm.aliases THEN pm.aliases[name] ELSE name
    IN IF (n \notin DOMAIN pm.properties \/ pm.properties[n] # value)
          /\ n \in DOMAIN pm.listeners
       THEN [i \in 1..Len(pm.listeners[n]) |->
                [listener |-> pm.listeners[n][i], name |-> n, value |-> value]]
       ELSE <<>>

SetAlias(pm, alias, target) ==
    [pm EXCEPT !.aliases =
        [k \in (DOMAIN pm.aliases) \cup {alias} |->
            IF k = alias THEN target ELSE pm.aliases[k]]]

AddListener(pm, propertyName, listener) ==
    [pm EXCEPT !.listeners =
        [k \in (DOMAIN pm.listeners) \cup {propertyName} |->
            IF k = propertyName
            THEN Append(IF k \in DOMAIN pm.listeners THEN pm.listeners[k]
                        ELSE <<>>, listener)
            ELSE pm.listeners[k]]]

UpdateFromAircraftState_KeepCommands(pm, state) ==
    LET s1 == Set(pm, "fcs/left-aileron-pos-rad", state.ControlSurfaces.AileronLeft)
        s2 == Set(s1, "fcs/right-aileron-pos-rad", state.ControlSurfaces.AileronRight)
        s3 == Set(s2, "fcs/elevator-pos-rad", state.ControlSurfaces.Elevator)
        s4 == Set(s3, "fcs/rudder-pos-rad", state.ControlSurfaces.Rudder)
        v1 == Set(s4, "velocities/alpha-rad", 0)
        v2 == Set(v1, "velocities/beta-rad", 0)
        r1 == Set(v2, "velocities/p-rad_sec", state.AngularRate.X)
        r2 == Set(r1, "velocities/q-rad_sec", state.AngularRate.Y)
        r3 == Set(r2, "velocities/r-rad_sec", state.AngularRate.Z)
        a1 == Set(r3, "attitude/phi-rad", 0)
        a2 == Set(a1, "attitude/theta-rad", 0)
    IN Set(a2, "attitude/psi-rad", 0)

UpdateFromAircraftState(pm, state) ==
    LET c1 == Set(pm, "fcs/aileron-cmd-norm", state.Controls.Aileron)
        c2 == Set(c1, "fcs/elevator-cmd-norm", state.Controls.Elevator)
        c3 == Set(c2, "fcs/rudder-cmd-norm", state.Controls.Rudder)
        c4 == Set(c3, "fcs/throttle-cmd-norm", state.Controls.Throttle)
        c5 == Set(c4, "fcs/flap-cmd-norm", state.Controls.Flaps)
        s1 == Set(c5, "fcs/left-aileron-pos-rad", state.ControlSurfaces.AileronLeft)
        s2 == Set(s1, "fcs/right-aileron-pos-rad", state.ControlSurfaces.AileronRight)
        s3 == Set(s2, "fcs/elevator-pos-rad", state.ControlSurfaces.Elevator)
        s4 == Set(s3, "fcs/rudder-pos-rad", state.ControlSurfaces.Rudder)
        v1 == Set(s4, "velocities/alpha-rad", 0)
        v2 == Set(v1, "velocities/beta-rad", 0)
        r1 == Set(v2, "velocities/p-rad_sec", state.AngularRate.X)
        r2 == Set(r1, "velocities/q-rad_sec", state.AngularRate.Y)
        r3 == Set(r2, "velocities/r-rad_sec", state.AngularRate.Z)
        a1 == Set(r3, "attitude/phi-rad", 0)
        a2 == Set(a1, "attitude/theta-rad", 0)
    IN Set(a2, "attitude/psi-rad", 0)

ApplyToAircraftState(pm, state) ==
    [state EXCEPT
        !.ControlSurfaces.AileronLeft = Get(pm, "fcs/left-aileron-pos-rad"),
        !.ControlSurfaces.AileronRight = Get(pm, "fcs/right-aileron-pos-rad"),
        !.ControlSurfaces.Elevator = Get(pm, "fcs/elevator-pos-rad"),
        !.ControlSurfaces.Rudder = Get(pm, "fcs/rudder-pos-rad")]

----------------------------------------------------------------------------
(* FCS components.  RateLimit is in thousandths per second, Lag in         *)
(* milliseconds, HysteresisWidth and BiasValue in thousandths, Gain in     *)
(* ten-thousandths.                                                        *)

\* the scale of Gain: 1.0 is 10000
GainOne == 10000

NewActuatorComponent(name, input, output) ==
    [Name |-> name, Type |-> "ACTUATOR", Inputs |-> <<input>>,
     Output |-> output, RateGroup |-> "", Enabled |-> TRUE,
     RateLimitIsInf |-> TRUE, RateLimit |-> 0,
     Lag |-> 0, HysteresisWidth |-> 0, BiasValue |-> 0,
     currentValue |-> 0, targetValue |-> 0, previousInput |-> 0,
     initialized |-> FALSE]

NewGainComponent(name, input, output, gain) ==
    [Name |-> name, Type |-> "GAIN", Inputs |-> <<input>>,
     Output |-> output, RateGroup |-> "", Enabled |-> TRUE,
     Gain |-> gain]

\* C1, the time constant, is in milliseconds
NewLagFilterComponent(name, input, output, timeConstant) ==
    [Name |-> name, Type |-> "LAG_FILTER", Inputs |-> <<input>>,
     Output |-> output, RateGroup |-> "", Enabled |-> TRUE,
     C1 |-> timeConstant, output |-> 0, initialized |-> FALSE]

SetRateLimit(c, rateLimit) ==
    [c EXCEPT !.RateLimit = rateLimit, !.RateLimitIsInf = FALSE]
SetLag(c, lag) == [c EXCEPT !.Lag = lag]
SetHysteresis(c, width) == [c EXCEPT !.HysteresisWidth = width]
SetRateGroup(c, rateGroup) == [c EXCEPT !.RateGroup = rateGroup]

\* the result of a component's Execute: the component, the store, and the
\* value the component read from its input property
Executed(c, pm, read) == [comp |-> c, pm |-> pm, read |-> read]

ApplyHysteresis_AcceptAll(c, biased) == biased

\* the hysteresis stage of ActuatorComponent.Execute: the input value that
\* is processed, given the input with the bias added
ApplyHysteresis(c, biased) ==
    \* |input - previousInput| < HysteresisWidth / 2
    IF c.HysteresisWidth > 0
       /\ 2 * Abs(biased - c.previousInput) < c.HysteresisWidth
    THEN c.previousInput ELSE biased

ApplyRateLimit_None(c, target0, inputValue, dt) == inputValue

\* the rate-limiting stage of ActuatorComponent.Execute: the new target
ApplyRateLimit(c, target0, inputValue, dt) ==
    IF ~c.RateLimitIsInf /\ c.RateLimit > 0
    THEN IF inputValue > target0 + Div(c.RateLimit * dt, 1000)
         THEN target0 + Div(c.RateLimit * dt, 1000)
         ELSE IF inputValue < target0 - Div(c.RateLimit * dt, 1000)
              THEN target0 - Div(c.RateLimit * dt, 1000)
              ELSE inputValue
    ELSE inputValue

ActuatorComponent_Execute(c, pm, dt) ==
    IF ~c.Enabled \/ Len(c.Inputs) = 0 THEN Executed(c, pm, 0)
    ELSE
    LET read == Get(pm, c.Inputs[1])
        inputValue == ApplyHysteresis(c, read + c.BiasValue)
        previousInput == IF c.HysteresisWidth > 0 THEN inputValue
                         ELSE c.previousInput
        current0 == IF c.initialized THEN c.currentValue ELSE 0
        target0 == IF c.initialized THEN c.targetValue ELSE 0
        target1 == ApplyRateLimit(c, target0, inputValue, dt)
        \* alpha = dt / (Lag + dt)
        current1 == IF c.Lag > 0
                    THEN current0 + Div(dt * (target1 - current0), c.Lag + dt)
                    ELSE target1
        c1 == [c EXCEPT !.previousInput = previousInput, !.initialized = TRUE,
                        !.targetValue = target1, !.currentValue = current1]
    IN Executed(c1, IF c.Output # "" THEN Set(pm, c.Output, current1) ELSE pm,
                read)

GainComponent_Execute(c, pm, dt) ==
    IF ~c.Enabled \/ Len(c.Inputs) = 0 THEN Executed(c, pm, 0)
    ELSE
    LET input == Get(pm, c.Inputs[1])
        output == Div(input * c.Gain, GainOne)
    IN Executed(c, IF c.Output # "" THEN Set(pm, c.Output, output) ELSE pm,
                input)

LagFilterComponent_Execute(c, pm, dt) ==
    IF ~c.Enabled \/ Len(c.Inputs) = 0 \/ c.C1 <= 0
    THEN Executed(c, Set(pm, c.Output, Get(pm, c.Inputs[1])),
                  Get(pm, c.Inputs[1]))
    ELSE
    LET input == Get(pm, c.Inputs[1])
        output0 == IF c.initialized THEN c.output ELSE 0
        \* alpha = dt / (C1 + dt)
        output1 == output0 + Div(dt * (input - output0), c.C1 + dt)
        c1 == [c EXCEPT !.output = output1, !.initialized = TRUE]
    IN Executed(c1, IF c.Output # "" THEN Set(pm, c.Output, output1) ELSE pm,
                input)

\* the dynamic dispatch of ComponentProcessor.Execute
ComponentProcessor_Execute(c, pm, dt) ==
    IF c.Type = "ACTUATOR" THEN ActuatorComponent_Execute(c, pm, dt)
    ELSE IF c.Type = "LAG_FILTER" THEN LagFilterComponent_Execute(c, pm, dt)
    ELSE GainComponent_Execute(c, pm, dt)

ActuatorComponent_Reset_KeepPreviousInput(c) ==
    [c EXCEPT !.currentValue = 0, !.targetValue = 0, !.initialized = FALSE]

ActuatorComponent_Reset(c) ==
    [c EXCEPT !.currentValue = 0, !.targetValue = 0, !.previousInput = 0,
              !.initialized = FALSE]

LagFilterComponent_Reset(c) ==
    [c EXCEPT !.output = 0, !.initialized = FALSE]

\* the dynamic dispatch of ComponentProcessor.Reset; a gain has the Reset
\* of BaseComponent, which does nothing
ComponentProcessor_Reset(c) ==
    IF c.Type = "ACTUATOR" THEN ActuatorComponent_Reset(c)
    ELSE IF c.Type = "LAG_FILTER" THEN LagFilterComponent_Reset(c)
    ELSE c

----------------------------------------------------------------------------
(* Rate groups and the flight control system.  Components are objects:     *)
(* Objects maps a reference to the component it denotes, the component     *)
(* lists of the rate groups and the master index Components hold           *)
(* references.  addOrder is history: the rate-group names in the order in  *)
(* which they first entered the RateGroups map (a Go map keeps no order).  *)
(* Channels are not run by Execute and are left out, and so are the wall   *)
(* clock fields (LastExecution, ExecutionTime, TotalTime).                 *)

NewRateGroupScheduler(name, rateHz) ==
    [Name |-> name, RateHz |-> rateHz, Components |-> <<>>, Enabled |-> TRUE]

NewFlightControlSystem(name, defaultRateHz) ==
    [Name |-> name,
     Properties |-> NewPropertyManager,
     RateGroups |-> [g \in {"default"} |->
                        NewRateGroupScheduler("default", defaultRateHz)],
     Components |-> [n \in {} |-> 0],
     Objects |-> [r \in {} |-> 0],
     DefaultRate |-> defaultRateHz,
     Enabled |-> TRUE,
     TotalExecutions |-> 0,
     addOrder |-> <<"default">>]

AddRateGroup(f, name, rateHz) ==
    [f EXCEPT
        !.RateGroups = [g \in (DOMAIN f.RateGroups) \cup {name} |->
                           IF g = name THEN NewRateGroupScheduler(name, rateHz)
                           ELSE f.RateGroups[g]],
        !.addOrder = IF name \in DOMAIN f.RateGroups THEN @
                     ELSE Append(@, name)]

\* FlightControlSystem.AddComponent with RateGroupScheduler.AddComponent
\* inlined; ref is the reference of the component object
AddComponent(f, ref, component) ==
    LET declared == IF component.RateGroup = "" THEN "default"
                    ELSE component.RateGroup
        group == IF declared \in DOMAIN f.RateGroups THEN declared
                 ELSE "default"
    IN [f EXCEPT
        !.Components = [n \in (DOMAIN f.Components) \cup {component.Name} |->
                           IF n = component.Name THEN ref ELSE f.Components[n]],
        !.Objects = [r \in (DOMAIN f.Objects) \cup {ref} |->
                        IF r = ref THEN SetRateGroup(component, group)
                        ELSE f.Objects[r]],
        !.RateGroups[group].Components = Append(@, ref)]

\* one pass of the loop of RateGroupScheduler.Execute: component c, held at
\* reference ref, has executed with the result e.  r carries the system and
\* the trace of the component executions made so far.
ComponentRan(r, g, ref, c, e) ==
    [fcs |-> [r.fcs EXCEPT !.Objects[ref] = e.comp, !.Properties = e.pm],
     trace |-> Append(r.trace, [group |-> g, component |-> c.Name,
                                input |-> c.Inputs[1], read |-> e.read])]

\* the loop of RateGroupScheduler.Execute from position i on
RECURSIVE RunComponents(_, _, _, _)
RunComponents(r, g, i, dt) ==
    IF i > Len(r.fcs.RateGroups[g].Components) THEN r
    ELSE RunComponents(
            ComponentRan(r, g, r.fcs.RateGroups[g].Components[i],
                         r.fcs.Objects[r.fcs.RateGroups[g].Components[i]],
                         ComponentProcessor_Execute(
                             r.fcs.Objects[r.fcs.RateGroups[g].Components[i]],
                             r.fcs.Properties, dt)),
            g, i + 1, dt)

RateGroupScheduler_Execute_IgnoreEnabled(r, g, dt) ==
    RunComponents(r, g, 1, dt)

RateGroupScheduler_Execute(r, g, dt) ==
    IF ~r.fcs.RateGroups[g].Enabled THEN r
    ELSE RunComponents(r, g, 1, dt)

\* the range loop of FlightControlSystem.Execute, visiting the rate groups
\* in the given order
RECURSIVE RunRateGroups(_, _, _)
RunRateGroups(r, order, dt) ==
    IF order = <<>> THEN r
    ELSE RunRateGroups(RateGroupScheduler_Execute(r, Head(order), dt),
                       Tail(order), dt)

\* the orders in which a range over a Go map with the keys S can visit them
IterationOrders(S) ==
    { o \in [1..Cardinality(S) -> S] :
        \A i, j \in 1..Cardinality(S) : i # j => o[i] # o[j] }

\* FlightControlSystem.Execute(state, dt) when the map iteration visits the
\* rate groups in the given order.  The result carries the system and the
\* state after the call, the property values right after the state-to-
\* property synchronization, and the trace of the component executions.
NotExecuted(f, state) ==
    [fcs |-> f, state |-> state, ran |-> FALSE,
     synced |-> f.Properties.properties, trace |-> <<>>]

\* the end of Execute: the rate groups have run with the result r; pm1 is
\* the store as the synchronization left it
Execute_Apply(state, pm1, r) ==
    [fcs |-> [r.fcs EXCEPT !.TotalExecutions = @ + 1],
     state |-> ApplyToAircraftState(r.fcs.Properties, state),
     ran |-> TRUE,
     synced |-> pm1.properties,
     trace |-> r.trace]

\* the middle of Execute: the synchronization has left the store pm1
Execute_RateGroups(f, state, dt, order, pm1) ==
    Execute_Apply(state, pm1,
                  RunRateGroups([fcs |-> [f EXCEPT !.Properties = pm1],
                                 trace |-> <<>>], order, dt))

FlightControlSystem_Execute(f, state, dt, order) ==
    IF ~f.Enabled THEN NotExecuted(f, state)
    ELSE Execute_RateGroups(f, state, dt, order,
                            UpdateFromAircraftState(f.Properties, state))

\* FlightControlSystem.Reset: Reset is called on every component of the
\* master index (the resets are independent of each other, so the order of
\* the range over the map does not matter) and the counter is zeroed
FlightControlSystem_Reset(f) ==
    [f EXCEPT
        !.Objects = [r \in DOMAIN f.Objects |->
                        IF \E n \in DOMAIN f.Components : f.Components[n] = r
                        THEN ComponentProcessor_Reset(f.Objects[r])
                        ELSE f.Objects[r]],
        !.TotalExecutions = 0]

\* the components of CreateStandardP51DFlightControlSystem
elevatorActuator ==
    SetRateGroup(SetHysteresis(SetLag(SetRateLimit(
        NewActuatorComponent("fcs/elevator-actuator", "fcs/elevator-cmd-norm",
                             "fcs/elevator-pos-rad"),
        2500), 60), 20), "high")
elevatorGain ==
    SetRateGroup(
        NewGainComponent("fcs/elevator-gain", "fcs/elevator-pos-rad",
                         "fcs/elevator-pos-deg", 572958),
        "medium")
leftAileronActuator ==
    SetRateGroup(SetLag(SetRateLimit(
        NewActuatorComponent("fcs/left-aileron-actuator", "fcs/aileron-cmd-norm",
                             "fcs/left-aileron-pos-rad"),
        3000), 40), "high")
rightAileronGain ==
    NewGainComponent("fcs/right-aileron-gain", "fcs/aileron-cmd-norm",
                     "fcs/right-aileron-cmd-norm", -GainOne)
rightAileronActuator ==
    SetRateGroup(SetLag(SetRateLimit(
        NewActuatorComponent("fcs/right-aileron-actuator",
                             "fcs/right-aileron-cmd-norm",
                             "fcs/right-aileron-pos-rad"),
        3000), 40), "high")
rudderActuator ==
    SetRateGroup(SetHysteresis(SetLag(SetRateLimit(
        NewActuatorComponent("fcs/rudder-actuator", "fcs/rudder-cmd-norm",
                             "fcs/rudder-pos-rad"),
        2000), 80), 30), "high")

CreateStandardP51DFlightControlSystem ==
    LET f0 == NewFlightControlSystem("P51D FCS", 120)
        f1 == AddRateGroup(f0, "high", 120)
        f2 == AddRateGroup(f1, "medium", 40)
        f3 == AddRateGroup(f2, "low", 10)
        f4 == AddComponent(f3, 1, elevatorActuator)
        f5 == AddComponent(f4, 2, elevatorGain)
        f6 == AddComponent(f5, 3, leftAileronActuator)
        f7 == AddComponent(f6, 4, rightAileronGain)
        f8 == AddComponent(f7, 5, rightAileronActuator)
    IN AddComponent(f8, 6, rudderActuator)

CreateBasicFlightControlSystem ==
    LET f0 == NewFlightControlSystem("Basic FCS", 60)
        f1 == AddComponent(f0, 1,
                 NewGainComponent("elevator-pass", "fcs/elevator-cmd-norm",
                                  "fcs/elevator-pos-rad", GainOne))
        f2 == AddComponent(f1, 2,
                 NewGainComponent("aileron-pass", "fcs/aileron-cmd-norm",
                                  "fcs/left-aileron-pos-rad", GainOne))
    IN AddComponent(f2, 3,
                 NewGainComponent("rudder-pass", "fcs/rudder-cmd-norm",
                                  "fcs/rudder-pos-rad", GainOne))

\* NewFlightDynamicsEngineWithFCS picks the factory
NewFCS(useRealisticFCS) ==
    IF useRealisticFCS THEN CreateStandardP51DFlightControlSystem
    ELSE CreateBasicFlightControlSystem

\* FlightDynamicsEngineWithFCS.SetControlInputs
SetControlInputs(f, controls) ==
    LET c1 == Set(f.Properties, "fcs/aileron-cmd-norm", controls.Aileron)
        c2 == Set(c1, "fcs/elevator-cmd-norm", controls.Elevator)
        c3 == Set(c2, "fcs/rudder-cmd-norm", controls.Rudder)
        c4 == Set(c3, "fcs/throttle-cmd-norm", controls.Throttle)
    IN [f EXCEPT !.Properties = Set(c4, "fcs/flap-cmd-norm", controls.Flaps)]
----------------------------------------------------------------------------
(* The simulation step.  Forces are in newtons, moments in newton metres,  *)
(* masses in kilograms, velocities, accelerations, angular rates and       *)
(* angular accelerations in thousandths of their SI unit.  Every step is   *)
(* taken from a level state flying 50 m/s along its X axis                 *)
(* (NewAircraftState with the pilot commands set): for such a state the    *)
(* weight in the body frame is (0, 0, Mass * 9.81), the earth-frame        *)
(* velocity has no Z part and the angle of attack is 0.  Position,         *)
(* orientation, altitude and atmosphere are not integrated.                *)

Add3(a, b) == Vector3(a.X + b.X, a.Y + b.Y, a.Z + b.Z)

\* an aerodynamic function stands for its evaluation on the state's
\* properties: the value EvaluateFunction returns, or an error
AeroFunction(value, err) == [value |-> value, err |-> err]
AeroAxis(name, functions) == [Name |-> name, Function |-> functions]

\* aircraft configurations: forces in pounds, moment coefficients in
\* thousandths, EmptyMass in kg, WingArea in m^2, WingSpan and Chord in m
AeroSections ==
    { << AeroAxis("LIFT", << AeroFunction(7000, FALSE), AeroFunction(125, FALSE) >>),
         AeroAxis("DRAG", << AeroFunction(300, FALSE), AeroFunction(900, TRUE) >>),
         AeroAxis("SIDE", << AeroFunction(-20, FALSE) >>),
         AeroAxis("ROLL", << AeroFunction(4, FALSE) >>),
         AeroAxis("PITCH", << AeroFunction(-12, FALSE) >>),
         AeroAxis("YAW", << AeroFunction(2, FALSE) >>) >>,
      << AeroAxis("LIFT", << AeroFunction(0, FALSE) >>),
         AeroAxis("DRAG", << AeroFunction(0, FALSE) >>) >> }

JSBSimConfig(hasAerodynamics, axes) ==
    [HasAerodynamics |-> hasAerodynamics, Axis |-> axes,
     EmptyMass |-> 3232, WingArea |-> 22, WingSpan |-> 11, Chord |-> 2]

Configs ==
    { JSBSimConfig(TRUE, axes) : axes \in AeroSections }
        \cup { JSBSimConfig(FALSE, <<>>) }

NewForcesMomentsCalculator(config) ==
    [Config |-> config,
     Mass |-> config.EmptyMass,
     Reference |-> [WingArea |-> config.WingArea, WingSpan |-> config.WingSpan,
                    Chord |-> config.Chord],
     Inertia |-> [XX |-> Div(config.EmptyMass * config.WingSpan * config.WingSpan, 12),
                  YY |-> Div(config.EmptyMass * config.Chord * config.Chord, 12),
                  ZZ |-> Div(config.EmptyMass * (config.WingSpan * config.WingSpan
                                                 + config.Chord * config.Chord), 12)]]

\* the sum of the values of the functions of a list that evaluate without
\* an error
RECURSIVE SumFunctions(_)
SumFunctions(functions) ==
    IF functions = <<>> THEN 0
    ELSE (IF Head(functions).err THEN 0 ELSE Head(functions).value)
         + SumFunctions(Tail(functions))

\* the sum over all the axes of the section that carry the given name
RECURSIVE SumAxis(_, _)
SumAxis(axes, name) ==
    IF axes = <<>> THEN 0
    ELSE (IF Head(axes).Name = name THEN SumFunctions(Head(axes).Function) ELSE 0)
         + SumAxis(Tail(axes), name)

\* pounds to newtons (LB_TO_N = 4.44822)
LbToN(lb) == Div(lb * 4448, 1000)

calculateAerodynamicForces(calc, state) ==
    IF ~calc.Config.HasAerodynamics
    THEN [err |-> TRUE, Lift |-> 0, Drag |-> 0, Side |-> 0]
    ELSE [err |-> FALSE,
          Lift |-> -LbToN(SumAxis(calc.Config.Axis, "LIFT")),
          Drag |-> -LbToN(SumAxis(calc.Config.Axis, "DRAG")),
          Side |-> LbToN(SumAxis(calc.Config.Axis, "SIDE"))]

\* throttle * 8000 * Density / 1.225, and the propeller torque
\* Thrust * TrueAirspeed / 0.8 / (2700 * 2 * pi / 60)
calculatePropulsiveForces(calc, state) ==
    LET thrust == Div(Div(state.Controls.Throttle * 8000, 1000) * state.Density, 1225)
        power == Div(Div(thrust * state.TrueAirspeed, 1000) * 10, 8)
    IN [Thrust |-> thrust, Torque |-> Div(power * 1000, 282743)]

calculateGravitationalForces(calc, state) ==
    Vector3(0, 0, Div(calc.Mass * 981, 100))

calculateMoments(calc, state, propulsion) ==
    IF ~calc.Config.HasAerodynamics
    THEN [err |-> TRUE, Roll |-> 0, Pitch |-> 0, Yaw |-> 0]
    ELSE LET qS == state.DynamicPressure * calc.Reference.WingArea
             qSb == qS * calc.Reference.WingSpan
             qSc == qS * calc.Reference.Chord
         IN [err |-> FALSE,
             Roll |-> Div(SumAxis(calc.Config.Axis, "ROLL") * qSb, 1000)
                      + propulsion.Torque,
             Pitch |-> Div(SumAxis(calc.Config.Axis, "PITCH") * qSc, 1000),
             Yaw |-> Div(SumAxis(calc.Config.Axis, "YAW") * qSb, 1000)]

\* CalculateForcesMoments with sumTotalForcesMoments inlined
CalculateForcesMoments(calc, state) ==
    LET aero == calculateAerodynamicForces(calc, state)
        propulsion == calculatePropulsiveForces(calc, state)
        weight == calculateGravitationalForces(calc, state)
        moments == calculateMoments(calc, state, propulsion)
    IN [err |-> aero.err \/ moments.err,
        Aerodynamic |-> Vector3(aero.Drag, aero.Side, aero.Lift),
        Propulsion |-> propulsion,
        Gravity |-> weight,
        TotalForce |-> Vector3(aero.Drag + propulsion.Thrust + weight.X,
                               aero.Side + weight.Y,
                               aero.Lift + weight.Z),
        TotalMoment |-> Vector3(moments.Roll, moments.Pitch, moments.Yaw)]

StateDerivatives(velocityDot, angularRateDot) ==
    [VelocityDot |-> velocityDot, AngularRateDot |-> angularRateDot]

CalculateStateDerivatives(calc, state, components) ==
    StateDerivatives(
        Vector3(Div(components.TotalForce.X * 1000, calc.Mass),
                Div(components.TotalForce.Y * 1000, calc.Mass),
                Div(components.TotalForce.Z * 1000, calc.Mass)),
        Vector3(Div(components.TotalMoment.X * 1000, calc.Inertia.XX),
                Div(components.TotalMoment.Y * 1000, calc.Inertia.YY),
                Div(components.TotalMoment.Z * 1000, calc.Inertia.ZZ)))

\* (k1 + 2 * 0.95 k1 + 2 * 0.98 k1 + 0.90 k1) / 6 = 0.96 k1, times dt
RK4Advance(k1, dt) == Div(Div(k1 * 96, 100) * dt, 1000)

\* RungeKutta4Integrator.Integrate: time, body velocity and angular rate
Integrate(state, derivatives, dt) ==
    [state EXCEPT
        !.Time = @ + dt,
        !.Velocity = Vector3(@.X + RK4Advance(derivatives.VelocityDot.X, dt),
                             @.Y + RK4Advance(derivatives.VelocityDot.Y, dt),
                             @.Z + RK4Advance(derivatives.VelocityDot.Z, dt)),
        !.AngularRate = Vector3(@.X + RK4Advance(derivatives.AngularRateDot.X, dt),
                                @.Y + RK4Advance(derivatives.AngularRateDot.Y, dt),
                                @.Z + RK4Advance(derivatives.AngularRateDot.Z, dt))]

\* what a step function returns: a state pointer (nil when hasState is
\* false), a derivatives pointer (nil when hasDerivatives is false), an error
StepResult(hasState, state, hasDerivatives, derivatives, err) ==
    [hasState |-> hasState, state |-> state,
     hasDerivatives |-> hasDerivatives, derivatives |-> derivatives,
     err |-> err]

ZeroDerivatives == StateDerivatives(Vector3(0, 0, 0), Vector3(0, 0, 0))

\* the end of FlightDynamicsEngine.Step, the forces stage having produced
\* components; of the forces stored on the new state only the total is kept
Step_Integrate(calc, state, dt, components) ==
    IF components.err
    THEN StepResult(FALSE, state, FALSE, ZeroDerivatives, TRUE)
    ELSE StepResult(TRUE,
                    [Integrate(state,
                               CalculateStateDerivatives(calc, state, components),
                               dt)
                        EXCEPT !.Forces = components.TotalForce],
                    FALSE, ZeroDerivatives, FALSE)

Step(calc, state, dt) ==
    Step_Integrate(calc, state, dt, CalculateForcesMoments(calc, state))

\* the end of RunSimulationStepWithFCS: Execute has left x, Step has
\* returned s.  The result also carries the system and the caller's state
\* object as the call leaves them.
WithFCS_Return(x, s) ==
    [fcs |-> x.fcs, callerState |-> x.state,
     result |-> IF s.err THEN s
                ELSE StepResult(TRUE, s.state, TRUE, ZeroDerivatives, FALSE)]

WithFCS_Step(calc, x, dt) == WithFCS_Return(x, Step(calc, x.state, dt))

RunSimulationStepWithFCS(calc, f, state, dt, order) ==
    WithFCS_Step(calc, FlightControlSystem_Execute(f, state, dt, order), dt)

\* Propeller.Thrust * 4.448222, in newtons
GetThrust(p) == Div(p.Propeller.Thrust * 4448, 100000)

\* Thrust * InducedVelocity / (RPM * 2 * pi / 60); GetTorque stores the
\* torque on the propeller
GetTorque(p) ==
    IF p.Propeller.RPM > 0
    THEN Div(p.Propeller.Thrust * p.Propeller.InducedVelocity * 100,
             p.Propeller.RPM * 10472)
    ELSE 0

\* the engine is mounted at roll -4 degrees, pitch 2.5 degrees, yaw 0:
\* cos(pitch) = 0.999, sin(pitch) = 0.044, sin(roll) = -0.070
calculatePropulsionForces(p, state) ==
    LET thrust == GetThrust(p)
    IN Vector3(Div(thrust * 999, 1000),
               Div(Div(thrust * (-70), 1000) * 999, 1000),
               Div(thrust * 44, 1000))

\* roll from the spiralling slipstream; the yaw of the P-factor is
\* thrust * sin(alpha) * 0.1 and alpha = atan2(Velocity.Z, Velocity.X) is 0
calculatePFactorMoments(p, state) ==
    Vector3(Div(p.Propeller.RPM * GetThrust(p), 100000), 0, 0)

\* the moment arm is the engine position (0.9144, 0, 0)
calculatePropulsionMoments(p, state) ==
    LET thrustForces == calculatePropulsionForces(p, state)
        thrustMoments == Vector3(0, -Div(9144 * thrustForces.Z, 10000),
                                 Div(9144 * thrustForces.Y, 10000))
        engineTorque == Vector3(-GetTorque(p), 0, 0)
    IN Add3(Add3(thrustMoments, engineTorque), calculatePFactorMoments(p, state))

\* PropulsionSystem.UpdateProperties followed by the derived properties of
\* updatePropulsionProperties; store values are in thousandths.  The
\* thrust-enhanced dynamic pressure, written when the induced velocity is
\* positive, is left out.
updatePropulsionProperties(pm, p) ==
    LET p1 == Set(pm, "propulsion/engine/set-running",
                  IF p.Engine.IsRunning THEN 1000 ELSE 0)
        p2 == Set(p1, "propulsion/engine/propeller-rpm", p.Propeller.RPM * 1000)
        p3 == Set(p2, "propulsion/engine/map-inhg", p.Engine.ManifoldPressure * 10)
        p4 == Set(p3, "propulsion/engine/thrust-lbs", p.Propeller.Thrust * 10)
        p5 == Set(p4, "propulsion/engine/prop-induced-velocity_fps",
                  p.Propeller.InducedVelocity * 100)
        p6 == Set(p5, "external_reactions/exhaust-thrust/magnitude",
                  p.Propeller.Thrust * 10)
        p7 == Set(p6, "propulsion/total-fuel-lbs", p.FuelSystem.TotalContents * 10)
        p8 == Set(p7, "propulsion/fuel-flow-rate_pph", p.FuelSystem.FuelFlow * 10)
    IN IF Get(p8, "propulsion/engine/thrust-lbs") > 0
       THEN Set(p8, "propulsion/power-loading",
                Div(1160000000, p.Propeller.Thrust))
       ELSE p8

\* 11600.0 * 0.453592 kg
ApproxMass == 5262

\* applyConstraints: the fuel total is not negative, the engine RPM lies in
\* [0, MaxRPM]
applyConstraints(p) ==
    [p EXCEPT !.FuelSystem.TotalContents = Max(0, @),
              !.Engine.RPM = Max(0, Min(MaxRPM, @))]

\* step 5 of RunSimulationStepWithPropulsion: the propulsion forces and
\* moments are added to the derivatives that RunSimulationStepWithFCS
\* returned
AddPropulsion(base, propulsionForces, propulsionMoments) ==
    StateDerivatives(
        Vector3(base.VelocityDot.X + Div(propulsionForces.X * 1000, ApproxMass),
                base.VelocityDot.Y + Div(propulsionForces.Y * 1000, ApproxMass),
                base.VelocityDot.Z + Div(propulsionForces.Z * 1000, ApproxMass)),
        Vector3(base.AngularRateDot.X + propulsionMoments.X * 1000,
                base.AngularRateDot.Y + propulsionMoments.Y * 1000,
                base.AngularRateDot.Z + propulsionMoments.Z * 1000))

\* the end of RunSimulationStepWithPropulsion once the derivatives are
\* complete
WithPropulsion_Integrate(p1, fuelWeight1, w, derivatives, dt) ==
    [fcs |-> w.fcs,
     ps |-> applyConstraints([p1 EXCEPT !.Propeller.Torque = GetTorque(p1)]),
     fuelWeight |-> fuelWeight1,
     callerState |-> w.callerState,
     result |-> StepResult(TRUE, Integrate(w.callerState, derivatives, dt),
                           TRUE, derivatives, FALSE)]

\* RunSimulationStepWithPropulsion from the return of
\* RunSimulationStepWithFCS, whose outcome is w, on
WithPropulsion_Return(p1, fuelWeight1, w, state, dt) ==
    IF w.result.err
    THEN [fcs |-> w.fcs, ps |-> p1, fuelWeight |-> fuelWeight1,
          callerState |-> w.callerState,
          result |-> StepResult(FALSE, state, FALSE, ZeroDerivatives, TRUE)]
    ELSE WithPropulsion_Integrate(
             p1, fuelWeight1, w,
             AddPropulsion(w.result.derivatives,
                           calculatePropulsionForces(p1, w.callerState),
                           calculatePropulsionMoments(p1, w.callerState)),
             dt)

\* updateAircraftWeight
updateAircraftWeight(fuelWeight, p1) ==
    IF fuelWeight - p1.FuelSystem.TotalContents > 0
    THEN p1.FuelSystem.TotalContents ELSE fuelWeight

\* RunSimulationStepWithPropulsion once the propulsion system has been
\* updated to p1
WithPropulsion_Updated(calc, f, p1, fuelWeight, state, dt, order) ==
    WithPropulsion_Return(
        p1, updateAircraftWeight(fuelWeight, p1),
        RunSimulationStepWithFCS(
            calc, [f EXCEPT !.Properties = updatePropulsionProperties(@, p1)],
            state, dt, order),
        state, dt)

\* RunSimulationStepWithPropulsion(state, dt) on an engine made of the
\* calculator calc, the flight control system f, the propulsion system p
\* and the fuel weight last seen; order is the order in which the rate
\* groups are visited.  The result carries the engine parts and the caller's
\* state object as the call leaves them, and the three values returned.
RunSimulationStepWithPropulsion(calc, f, p, fuelWeight, state, dt, order) ==
    WithPropulsion_Updated(calc, f,
                           Update(p, Div(state.Controls.Throttle, 100), dt),
                           fuelWeight, state, dt, order)
----------------------------------------------------------------------------
(* The lock of the property store and the goroutines that work on it.      *)
(* Set takes the write lock, writes, starts one goroutine per listener     *)
(* call with a go statement and releases the lock on return; Get takes     *)
(* the read lock.  A goroutine is the sequence of the steps it has yet to  *)
(* make.  A listener is known by what its OnPropertyChanged does.          *)

\* the zero value of sync.RWMutex: w is the goroutine holding the write
\* lock (0: none), r the goroutines holding the read lock
\* sync.RWMutex: w is the goroutine that has called Lock and has not yet
\* called Unlock (0 when there is none), r the goroutines holding a read
\* lock
NewRWMutex == [w |-> 0, r |-> {}]

Step1(op, name, value) == [op |-> op, name |-> name, value |-> value]

\* the steps of PropertyManager.Set(name, value).  Lock is two steps: the
\* writer announces itself, which holds new readers and writers off, and
\* then waits for the readers that hold the lock to leave
SetBody(name, value) ==
    <<Step1("Lock", name, value), Step1("Locked", name, value),
      Step1("Write", name, value), Step1("Unlock", name, value)>>

\* the steps of PropertyManager.Get(name)
GetBody(name) ==
    <<Step1("RLock", name, 0), Step1("Read", name, 0),
      Step1("RUnlock", name, 0)>>

\* the steps of listener.OnPropertyChanged(name, value): a listener that
\* returns at once, one that never returns, one that reads the property,
\* one that writes the value back to the property, and one that writes it
\* to another property
OnPropertyChanged(listener, name, value) ==
    IF listener = "return" THEN <<>>
    ELSE IF listener = "block" THEN <<Step1("Block", name, value)>>
    ELSE IF listener = "get" THEN GetBody(name)
    ELSE IF listener = "set" THEN SetBody(name, value)
    ELSE SetBody("mirror", value)

NewGoroutine(todo, listener) == [todo |-> todo, listener |-> listener]

\* the go statements of Set: one new goroutine per listener call
RECURSIVE Go(_, _)
Go(gs, calls) ==
    IF calls = <<>> THEN gs
    ELSE Go(Append(gs, NewGoroutine(
                OnPropertyChanged(Head(calls).listener, Head(calls).name,
                                  Head(calls).value),
                Head(calls).listener)),
            Tail(calls))

\* the listener calls made in the goroutine of the caller, one after the
\* other
RECURSIVE Inline(_)
Inline(calls) ==
    IF calls = <<>> THEN <<>>
    ELSE OnPropertyChanged(Head(calls).listener, Head(calls).name,
                           Head(calls).value) \o Inline(Tail(calls))

Notify_Synchronous(gs, g, calls) ==
    [gs EXCEPT ![g].todo = Inline(calls) \o Tail(@)]

\* goroutine g has written and posts the listener calls: its write step is
\* done and the goroutines of the calls are started
Notify(gs, g, calls) ==
    Go([gs EXCEPT ![g].todo = Tail(@)], calls)

\* goroutine g has made a step that starts no goroutine
Advance(gs, g) == [gs EXCEPT ![g].todo = Tail(@)]

\* the step that goroutine g has to make next ("" when it has finished)
NextOp(gs, g) == IF gs[g].todo = <<>> THEN "" ELSE Head(gs[g].todo).op

\* RWMutex.Lock gets past the other writers when none has the lock or
\* waits for it
CanLock(m) == m.w = 0

\* RWMutex.Lock returns when the readers have left
CanEnter(m) == m.r = {}

\* RWMutex.RLock returns when no writer has the lock or waits for it
CanRLock(m) == m.w = 0

----------------------------------------------------------------------------
(* AdaptiveTimeStep.  Time steps are in microseconds, errors and the       *)
(* tolerance in millionths, the safety factor in tenths.  The error that   *)
(* EstimateError finds depends on the integrator, the state and the        *)
(* derivatives; it is modelled as proportional to dt, with the factor      *)
(* (millionths per millisecond) as the input.                              *)

MinDt == 1
MaxDt == 100000
Tolerance == 1000
SafetyFactor == 9

NewAdaptiveTimeStep(order) ==
    [Order |-> order, MinDt |-> MinDt, MaxDt |-> MaxDt,
     Tolerance |-> Tolerance, SafetyFactor |-> SafetyFactor]

\* an error that is not zero is at least one unit
EstimateError(errorPerMs, dt) ==
    IF errorPerMs * dt > 0 THEN Max(1, Div(errorPerMs * dt, 1000)) ELSE 0

RECURSIVE Power(_, _)
Power(b, k) == IF k = 0 THEN 1 ELSE b * Power(b, k - 1)

\* the largest r in lo..hi with r^k <= n
RECURSIVE RootSearch(_, _, _, _)
RootSearch(n, k, lo, hi) ==
    IF lo >= hi THEN lo
    ELSE LET mid == (lo + hi + 1) \div 2
         IN IF Power(mid, k) <= n THEN RootSearch(n, k, mid, hi)
            ELSE RootSearch(n, k, lo, mid - 1)

\* the scale in which math.Pow(tolerance/error, 1/order) is computed
PowScale(order) == IF order >= 4 THEN 10 ELSE 100

\* math.Pow(tolerance/error, 1/order), scaled by PowScale(order)
PowRatio(tolerance, error, order) ==
    RootSearch((tolerance * Power(PowScale(order), order)) \div error, order,
               0, IF order = 1 THEN tolerance * PowScale(order)
                  ELSE IF order = 2 THEN 40000 ELSE 200)

\* currentDt * SafetyFactor * pow, clamped to [MinDt, MaxDt]; a product
\* beyond MaxDt is not computed
SuggestedDt(ats, currentDt, pow, scale) ==
    LET a == Div(currentDt * ats.SafetyFactor, 10)
    IN IF pow > 0 /\ a > ((ats.MaxDt + 1) * scale) \div pow
       THEN ats.MaxDt
       ELSE Max(ats.MinDt, Min(ats.MaxDt, Div(a * pow, scale)))

\* the loop of AdaptiveIntegrate from the step size currentDt on; the
\* result is the step size proposed for the next step
RECURSIVE AdaptiveLoop(_, _, _)
AdaptiveLoop(ats, errorPerMs, currentDt) ==
    LET error == EstimateError(errorPerMs, currentDt)
    IN IF error <= ats.Tolerance
       THEN IF error > 0
            THEN SuggestedDt(ats, currentDt,
                             PowRatio(ats.Tolerance, error, ats.Order),
                             PowScale(ats.Order))
            ELSE currentDt
       ELSE IF currentDt \div 2 < ats.MinDt THEN ats.MinDt
            ELSE AdaptiveLoop(ats, errorPerMs, currentDt \div 2)

AdaptiveIntegrate(ats, errorPerMs, targetDt) ==
    AdaptiveLoop(ats, errorPerMs, targetDt)

----------------------------------------------------------------------------
(* Inputs offered to the operations                                        *)

MaxExecutes == 2
MaxSteps == 2

ControlInputs(aileron, elevator, rudder, throttle, flaps) ==
    [Aileron |-> aileron, Elevator |-> elevator, Rudder |-> rudder,
     Throttle |-> throttle, Flaps |-> flaps]

\* pilot commands (thousandths)
ControlChoices ==
    { NewControlInputs,
      ControlInputs(1000, -500, 300, 800, 500) }

\* flight conditions of the caller's state (thousandths of a radian, of a
\* radian per second)
FlightConditions ==
    { [Roll |-> 0, Pitch |-> 0, Yaw |-> 0, Alpha |-> 0, Beta |-> 0,
       AngularRate |-> Vector3(0, 0, 0)],
      [Roll |-> 200, Pitch |-> 100, Yaw |-> 1500, Alpha |-> 50, Beta |-> -20,
       AngularRate |-> Vector3(10, -5, 20)] }

\* time steps offered to Execute and to the simulation step (milliseconds)
FcsDts == {10}
StepDts == {10, 100}

InFlight(state, fc) ==
    [state EXCEPT !.Roll = fc.Roll, !.Pitch = fc.Pitch, !.Yaw = fc.Yaw,
                  !.Alpha = fc.Alpha, !.Beta = fc.Beta,
                  !.AngularRate = fc.AngularRate]

\* the record kept of the last Execute: the operation, the system and the
\* store before the call, the state handed in, what Execute did (see FlightControlSystem_Execute),
\* the order in which the groups had been added, and the store and the
\* state when the call returned
ExecuteRecord(f, state, x) ==
    [op |-> "Execute", sys |-> f,
     called |-> TRUE, ran |-> x.ran,
     before |-> f.Properties.properties,
     in |-> state,
     synced |-> x.synced,
     trace |-> x.trace,
     addOrder |-> f.addOrder,
     props |-> x.fcs.Properties.properties,
     out |-> x.state]

NoExecute ==
    [op |-> "", sys |-> NewFlightControlSystem("", 0),
     called |-> FALSE, ran |-> FALSE,
     before |-> NewPropertyManager.properties,
     in |-> NewAircraftState,
     synced |-> NewPropertyManager.properties,
     trace |-> <<>>,
     addOrder |-> <<>>,
     props |-> NewPropertyManager.properties,
     out |-> NewAircraftState]

\* the record kept when the last operation was Reset on the system f
ResetRecord(f) == [NoExecute EXCEPT !.op = "Reset", !.sys = f]

\* the record kept of the last simulation step: the state handed in, the
\* values returned, and the force contributions on the state the forces
\* stage saw
StepRecord(calc0, state, r) ==
    [called |-> TRUE,
     input |-> state,
     result |-> r.result,
     aero |-> CalculateForcesMoments(calc0, r.callerState).Aerodynamic,
     gravity |-> CalculateForcesMoments(calc0, r.callerState).Gravity,
     propulsion |-> calculatePropulsionForces(r.ps, r.callerState),
     aeroMoment |-> Vector3(calculateMoments(calc0, r.callerState, [Torque |-> 0]).Roll,
                            calculateMoments(calc0, r.callerState, [Torque |-> 0]).Pitch,
                            calculateMoments(calc0, r.callerState, [Torque |-> 0]).Yaw),
     propulsionMoment |-> calculatePropulsionMoments(r.ps, r.callerState)]

NoStep ==
    [called |-> FALSE,
     input |-> NewAircraftState,
     result |-> StepResult(FALSE, NewAircraftState, FALSE, ZeroDerivatives, FALSE),
     aero |-> Vector3(0, 0, 0), gravity |-> Vector3(0, 0, 0),
     propulsion |-> Vector3(0, 0, 0),
     aeroMoment |-> Vector3(0, 0, 0), propulsionMoment |-> Vector3(0, 0, 0)]

PropAtRest ==
    /\ ps = NewPropulsionSystem(XMLTanks)
    /\ nUpdates = 0

FcsAtRest ==
    /\ fcs = CreateStandardP51DFlightControlSystem
    /\ fcs2 = CreateStandardP51DFlightControlSystem
    /\ ac = NewAircraftState
    /\ last = NoExecute
    /\ nExec = 0

StepAtRest ==
    /\ calculator = NewForcesMomentsCalculator(JSBSimConfig(FALSE, <<>>))
    /\ lastFuelWeight = 0
    /\ ret = NoStep
    /\ nSteps = 0

\* no operation has been made yet on the component or on the store
NoOperation == [op |-> ""]

NoAdaptiveIntegrate ==
    [called |-> FALSE, ats |-> NewAdaptiveTimeStep(1), errorPerMs |-> 0,
     targetDt |-> 0, nextDt |-> 0]

CompAtRest ==
    /\ comp = NewActuatorComponent("", "", "")
    /\ hist = NoOperation
    /\ nOps = 0

StoreAtRest ==
    /\ store = NewPropertyManager
    /\ mutex = NewRWMutex
    /\ goroutines = <<>>

LibAtRest ==
    /\ CompAtRest
    /\ StoreAtRest
    /\ adapt = NoAdaptiveIntegrate

----------------------------------------------------------------------------
(* AdamsBashforth2Integrator.  One axis of the state is modelled, with the *)
(* orientation at identity, so that the earth velocity is the velocity.    *)
(* Time is in milliseconds, position, velocity and angular rate in         *)
(* thousandths of their units.  A StateDerivatives value is handed over as *)
(* a pointer: Derivs maps the objects to their contents.                   *)

State1(time, position, velocity, angularRate) ==
    [Time |-> time, Position |-> position, Velocity |-> velocity,
     AngularRate |-> angularRate]

Derivatives1(velocityDot, angularRateDot) ==
    [VelocityDot |-> velocityDot, AngularRateDot |-> angularRateDot]

NewAdamsBashforth2Integrator ==
    [previousDerivatives |-> 0, hasPrevious |-> FALSE,
     Derivs |-> <<Derivatives1(0, 0), Derivatives1(0, 0)>>]

EulerIntegrator_Integrate(state, derivatives, dt) ==
    State1(state.Time + dt,
           state.Position + Div(state.Velocity * dt, 1000),
           state.Velocity + Div(derivatives.VelocityDot * dt, 1000),
           state.AngularRate + Div(derivatives.AngularRateDot * dt, 1000))

\* 1.5 * now - 0.5 * previous, times dt
AdamsBashforthStep(now, previous, dt) ==
    Div((3 * now - previous) * dt, 2000)

AdamsBashforthStep_Euler(now, previous, dt) == Div(now * dt, 1000)

\* Integrate(state, derivatives, dt) on the integrator ab, derivatives
\* being a pointer into ab.Derivs: the new state and the integrator
AdamsBashforth2Integrator_Integrate(ab, state, derivatives, dt) ==
    IF ~ab.hasPrevious
    THEN [state |-> EulerIntegrator_Integrate(state, ab.Derivs[derivatives], dt),
          ab |-> [ab EXCEPT !.previousDerivatives = derivatives,
                            !.hasPrevious = TRUE]]
    ELSE [state |->
            State1(state.Time + dt,
                   \* prevEarthVel is computed from state.Velocity
                   state.Position
                     + AdamsBashforthStep(state.Velocity, state.Velocity, dt),
                   state.Velocity
                     + AdamsBashforthStep(
                           ab.Derivs[derivatives].VelocityDot,
                           ab.Derivs[ab.previousDerivatives].VelocityDot, dt),
                   state.AngularRate
                     + AdamsBashforthStep(
                           ab.Derivs[derivatives].AngularRateDot,
                           ab.Derivs[ab.previousDerivatives].AngularRateDot, dt)),
          ab |-> [ab EXCEPT !.previousDerivatives = derivatives]]

\* the integrator after EstimateError(state, derivatives, dt) with it as
\* the base integrator: a full step and two half steps whose states are
\* dropped
EstimateError_Integrator(ab, state, derivatives, dt) ==
    AdamsBashforth2Integrator_Integrate(
        AdamsBashforth2Integrator_Integrate(
            AdamsBashforth2Integrator_Integrate(ab, state, derivatives, dt).ab,
            state, derivatives, dt \div 2).ab,
        AdamsBashforth2Integrator_Integrate(
            AdamsBashforth2Integrator_Integrate(ab, state, derivatives, dt).ab,
            state, derivatives, dt \div 2).state,
        derivatives, dt \div 2).ab

\* no step of the trajectory has been integrated
NewTrajectory(state) ==
    [op |-> "", state |-> state, steps |-> 0,
     first |-> FALSE, before |-> state,
     f |-> Derivatives1(0, 0), dt |-> 0,
     hasPrev |-> FALSE, prevVelocity |-> 0, fPrev |-> Derivatives1(0, 0),
     lastVelocity |-> 0, lastF |-> Derivatives1(0, 0)]

\* no function and no table has been evaluated
NoEvaluation == [op |-> ""]

NumAtRest ==
    /\ integrator = NewAdamsBashforth2Integrator
    /\ traj = NewTrajectory(State1(0, 0, 0, 0))
    /\ eval = NoEvaluation

----------------------------------------------------------------------------
(* Specification of a propulsion system driven by Update calls             *)

InitProp ==
    /\ \E tanks \in TankLists : ps = NewPropulsionSystem(tanks)
    /\ nUpdates = 0
    /\ FcsAtRest
    /\ StepAtRest
    /\ LibAtRest
    /\ NumAtRest

PropUpdate ==
    /\ nUpdates < MaxUpdates
    /\ \E throttleInput \in ThrottleInputs, dt \in DtInputs :
          ps' = Update(ps, throttleInput, dt)
    /\ nUpdates' = nUpdates + 1
    /\ UNCHANGED <<fcsVars, stepVars, libVars, numVars>>

NextProp == PropUpdate

SpecProp == InitProp /\ [][NextProp]_vars

----------------------------------------------------------------------------
(* Specification of one flight control system: the caller sets pilot       *)
(* commands, switches the system on and off, and calls Execute on its      *)
(* aircraft state                                                          *)

InitFCS ==
    /\ \E useRealisticFCS \in BOOLEAN :
          /\ fcs = NewFCS(useRealisticFCS)
          /\ fcs2 = NewFCS(useRealisticFCS)
    /\ \E fc \in FlightConditions : ac = InFlight(NewAircraftState, fc)
    /\ last = NoExecute
    /\ nExec = 0
    /\ PropAtRest
    /\ StepAtRest
    /\ LibAtRest
    /\ NumAtRest

DoSetControlInputs ==
    /\ \E controls \in ControlChoices : fcs' = SetControlInputs(fcs, controls)
    /\ UNCHANGED <<fcs2, ac, last, nExec, propVars, stepVars, libVars, numVars>>

DoSetControlInputsOnState ==
    /\ \E controls \in ControlChoices :
          /\ ac' = AircraftState_SetControlInputs(ac, controls)
          /\ fcs' = SetControlInputs(fcs, controls)
    /\ UNCHANGED <<fcs2, last, nExec, propVars, stepVars, libVars, numVars>>

DoSetEnabled ==
    /\ \E enabled \in BOOLEAN : fcs' = [fcs EXCEPT !.Enabled = enabled]
    /\ UNCHANGED <<fcs2, ac, last, nExec, propVars, stepVars, libVars, numVars>>

\* Execute has been called on state and has had the outcome x
Executed1(state, x) ==
    /\ fcs' = x.fcs
    /\ ac' = x.state
    /\ last' = ExecuteRecord(fcs, state, x)

ExecuteOn(state, dt, order) ==
    Executed1(state, FlightControlSystem_Execute(fcs, state, dt, order))

DoExecute ==
    /\ nExec < MaxExecutes
    /\ \E dt \in FcsDts, order \in IterationOrders(DOMAIN fcs.RateGroups) :
          ExecuteOn(ac, dt, order)
    /\ nExec' = nExec + 1
    /\ UNCHANGED <<fcs2, propVars, stepVars, libVars, numVars>>

NextFCS ==
    \/ DoSetControlInputs
    \/ DoSetControlInputsOnState
    \/ DoSetEnabled
    \/ DoExecute

SpecFCS == InitFCS /\ [][NextFCS]_vars

----------------------------------------------------------------------------
(* Specification of two runs: two systems built by                         *)
(* CreateStandardP51DFlightControlSystem are handed the same aircraft      *)
(* state and the same dt at every Execute.  The state handed in is the one *)
(* the first system left, with the pilot commands the caller set.          *)

InitPair ==
    /\ fcs = CreateStandardP51DFlightControlSystem
    /\ fcs2 = CreateStandardP51DFlightControlSystem
    /\ ac = NewAircraftState
    /\ last = NoExecute
    /\ nExec = 0
    /\ PropAtRest
    /\ StepAtRest
    /\ LibAtRest
    /\ NumAtRest

PairSetControlInputs ==
    /\ \E controls \in ControlChoices :
          ac' = AircraftState_SetControlInputs(ac, controls)
    /\ UNCHANGED <<fcs, fcs2, last, nExec, propVars, stepVars, libVars, numVars>>

\* both systems have executed on the state ac, with the outcomes x1 and x2
Executed2(x1, x2) ==
    /\ fcs' = x1.fcs
    /\ fcs2' = x2.fcs
    /\ ac' = x1.state
    /\ last' = ExecuteRecord(fcs, ac, x1)

PairExecute ==
    /\ nExec < MaxExecutes
    /\ \E dt \in FcsDts, order1, order2 \in IterationOrders(DOMAIN fcs.RateGroups) :
          Executed2(FlightControlSystem_Execute(fcs, ac, dt, order1),
                    FlightControlSystem_Execute(fcs2, ac, dt, order2))
    /\ nExec' = nExec + 1
    /\ UNCHANGED <<propVars, stepVars, libVars, numVars>>

NextPair ==
    \/ PairSetControlInputs
    \/ PairExecute

SpecPair == InitPair /\ [][NextPair]_vars

----------------------------------------------------------------------------
(* Specification of the complete engine: RunSimulationStepWithPropulsion   *)
(* is called on a fresh level state carrying the pilot's commands          *)

InitStep ==
    /\ \E config \in Configs : calculator = NewForcesMomentsCalculator(config)
    /\ \E useRealisticFCS \in BOOLEAN :
          /\ fcs = NewFCS(useRealisticFCS)
          /\ fcs2 = NewFCS(useRealisticFCS)
    /\ ps = NewPropulsionSystem(XMLTanks)
    /\ lastFuelWeight = NewPropulsionSystem(XMLTanks).FuelSystem.TotalContents
    /\ ac = NewAircraftState
    /\ ret = NoStep
    /\ nSteps = 0
    /\ nUpdates = 0
    /\ last = NoExecute
    /\ nExec = 0
    /\ LibAtRest
    /\ NumAtRest

\* the step has been called on state and has had the outcome r
Stepped(state, r) ==
    /\ fcs' = r.fcs
    /\ ps' = r.ps
    /\ lastFuelWeight' = r.fuelWeight
    /\ ac' = r.callerState
    /\ ret' = StepRecord(calculator, state, r)

StepOn(state, dt, order) ==
    Stepped(state,
            RunSimulationStepWithPropulsion(calculator, fcs, ps, lastFuelWeight,
                                            state, dt, order))

DoRunSimulationStep ==
    /\ nSteps < MaxSteps
    /\ \E controls \in ControlChoices, dt \in StepDts,
          order \in IterationOrders(DOMAIN fcs.RateGroups) :
          StepOn(AircraftState_SetControlInputs(NewAircraftState, controls),
                 dt, order)
    /\ nSteps' = nSteps + 1
    /\ UNCHANGED <<calculator, fcs2, last, nExec, nUpdates, libVars, numVars>>

NextStep == DoRunSimulationStep

SpecStep == InitStep /\ [][NextStep]_vars

----------------------------------------------------------------------------
(* Specification of a flight control system under construction: the caller *)
(* has constructed component objects, adds rate groups and components,     *)
(* switches rate groups on and off, sets pilot commands, and calls Execute *)
(* and Reset.  The component names are distinct, and the system is built   *)
(* before it is first executed.                                            *)

MaxAdds == 3

\* the component objects constructed by the caller, by reference: an
\* actuator that declares no rate group, a lag filter that declares the
\* group "high", and a gain that declares a group that is never added
ComponentPool ==
    <<SetHysteresis(SetLag(SetRateLimit(
          NewActuatorComponent("elevator-actuator", "fcs/elevator-cmd-norm",
                               "fcs/elevator-pos-rad"), 2500), 60), 20),
      SetRateGroup(
          NewLagFilterComponent("aileron-lag", "fcs/aileron-cmd-norm",
                                "fcs/left-aileron-pos-rad", 40), "high"),
      SetRateGroup(
          NewGainComponent("rudder-gain", "fcs/rudder-cmd-norm",
                           "fcs/rudder-pos-rad", GainOne), "missing")>>

RateGroupNames == {"high"}

\* the number of entries of all component lists together
RECURSIVE ListEntries(_, _)
ListEntries(f, groups) ==
    IF groups = {} THEN 0
    ELSE LET g == CHOOSE x \in groups : TRUE
         IN Len(f.RateGroups[g].Components) + ListEntries(f, groups \ {g})

InitBuild ==
    /\ fcs = [NewFlightControlSystem("Build", 60) EXCEPT
                 !.Objects = ComponentPool]
    /\ fcs2 = CreateStandardP51DFlightControlSystem
    /\ \E controls \in ControlChoices :
          ac = AircraftState_SetControlInputs(NewAircraftState, controls)
    /\ last = NoExecute
    /\ nExec = 0
    /\ PropAtRest
    /\ StepAtRest
    /\ LibAtRest
    /\ NumAtRest

DoAddRateGroup ==
    /\ nExec = 0
    /\ \E name \in RateGroupNames : fcs' = AddRateGroup(fcs, name, 120)
    /\ UNCHANGED <<fcs2, ac, last, nExec, propVars, stepVars, libVars, numVars>>

DoAddComponent ==
    /\ nExec = 0
    /\ ListEntries(fcs, DOMAIN fcs.RateGroups) < MaxAdds
    /\ \E ref \in DOMAIN fcs.Objects :
          fcs' = AddComponent(fcs, ref, fcs.Objects[ref])
    /\ UNCHANGED <<fcs2, ac, last, nExec, propVars, stepVars, libVars, numVars>>

DoSetRateGroupEnabled ==
    /\ \E g \in DOMAIN fcs.RateGroups, enabled \in BOOLEAN :
          fcs' = [fcs EXCEPT !.RateGroups[g].Enabled = enabled]
    /\ UNCHANGED <<fcs2, ac, last, nExec, propVars, stepVars, libVars, numVars>>

DoReset ==
    /\ fcs' = FlightControlSystem_Reset(fcs)
    /\ last' = ResetRecord(fcs)
    /\ UNCHANGED <<fcs2, ac, nExec, propVars, stepVars, libVars, numVars>>

NextBuild ==
    \/ DoAddRateGroup
    \/ DoAddComponent
    \/ DoSetRateGroupEnabled
    \/ DoExecute
    \/ DoReset

SpecBuild == InitBuild /\ [][NextBuild]_vars

----------------------------------------------------------------------------
(* Specification of one actuator driven on its own: the caller writes a    *)
(* value to the input property and calls Execute, always with the same dt, *)
(* or calls Reset.                                                         *)

MaxOps == 3

\* rate limits (thousandths per second; 0: the default, no limit), lags
\* (milliseconds) and hysteresis bands (thousandths) of the actuator
RateLimits == {0, 10000, 2500}
Lags == {0, 60}
HysteresisWidths == {0, 100}
ActuatorDts == {50, 10}

\* the values written to the input property (thousandths)
ActuatorInputs == {0, 500, 520, 550, 800, 1000, -1000}

ActuatorUnderTest(rateLimit, lag, width) ==
    LET a == SetHysteresis(SetLag(
                 NewActuatorComponent("actuator", "input", "output"),
                 lag), width)
    IN IF rateLimit = 0 THEN a ELSE SetRateLimit(a, rateLimit)

\* the record kept of the last operation on the actuator: the actuator
\* before the operation, the value on its input and the time step
ActuatorRecord(op, c, v, dt) ==
    [op |-> op, before |-> c, input |-> v, dt |-> dt]

InitActuator ==
    /\ \E rateLimit \in RateLimits, lag \in Lags, width \in HysteresisWidths :
          comp = ActuatorUnderTest(rateLimit, lag, width)
    /\ \E dt \in ActuatorDts :
          hist = ActuatorRecord("", NewActuatorComponent("", "", ""), 0, dt)
    /\ nOps = 0
    /\ StoreAtRest
    /\ adapt = NoAdaptiveIntegrate
    /\ PropAtRest
    /\ FcsAtRest
    /\ StepAtRest
    /\ NumAtRest

\* the actuator has executed on the store with the result e
ActuatorExecuted(e) ==
    /\ comp' = e.comp
    /\ store' = e.pm

DoActuatorExecute ==
    /\ nOps < MaxOps
    /\ \E v \in ActuatorInputs :
          /\ ActuatorExecuted(ActuatorComponent_Execute(
                 comp, Set(store, comp.Inputs[1], v), hist.dt))
          /\ hist' = ActuatorRecord("Execute", comp, v, hist.dt)
    /\ nOps' = nOps + 1
    /\ UNCHANGED <<mutex, goroutines, adapt, propVars, fcsVars, stepVars, numVars>>

DoActuatorReset ==
    /\ nOps < MaxOps
    /\ comp' = ActuatorComponent_Reset(comp)
    /\ hist' = ActuatorRecord("Reset", comp, 0, hist.dt)
    /\ nOps' = nOps + 1
    /\ UNCHANGED <<store, mutex, goroutines, adapt, propVars, fcsVars, stepVars, numVars>>

NextActuator ==
    \/ DoActuatorExecute
    \/ DoActuatorReset

SpecActuator == InitActuator /\ [][NextActuator]_vars

----------------------------------------------------------------------------
(* Specification of a property store used from one goroutine: Set,         *)
(* SetAlias and AddListener calls.                                         *)

MaxStoreOps == 4

\* a preloaded property, and two names that are not preloaded
StoreNames == {"fcs/elevator-cmd-norm", "elevator", "pitch"}
StoreValues == {0, 1000}
StoreListeners == {"get"}

\* the record kept of the last operation on the store: the store before
\* the operation, the arguments, and the listener calls posted
StoreRecord(op, before, name, value, calls) ==
    [op |-> op, before |-> before, name |-> name, value |-> value,
     calls |-> calls]

InitStore ==
    /\ store = NewPropertyManager
    /\ hist = NoOperation
    /\ nOps = 0
    /\ comp = NewActuatorComponent("", "", "")
    /\ mutex = NewRWMutex
    /\ goroutines = <<>>
    /\ adapt = NoAdaptiveIntegrate
    /\ PropAtRest
    /\ FcsAtRest
    /\ StepAtRest
    /\ NumAtRest

DoSet ==
    /\ nOps < MaxStoreOps
    /\ \E name \in StoreNames, value \in StoreValues :
          /\ store' = Set(store, name, value)
          /\ hist' = StoreRecord("Set", store, name, value,
                                 SetNotifies(store, name, value))
    /\ nOps' = nOps + 1
    /\ UNCHANGED <<comp, mutex, goroutines, adapt, propVars, fcsVars, stepVars, numVars>>

DoSetAlias ==
    /\ nOps < MaxStoreOps
    /\ \E alias \in StoreNames, target \in StoreNames :
          /\ store' = SetAlias(store, alias, target)
          /\ hist' = StoreRecord("SetAlias", store, alias, 0, <<>>)
    /\ nOps' = nOps + 1
    /\ UNCHANGED <<comp, mutex, goroutines, adapt, propVars, fcsVars, stepVars, numVars>>

DoAddListener ==
    /\ nOps < MaxStoreOps
    /\ \E name \in StoreNames, listener \in StoreListeners :
          /\ store' = AddListener(store, name, listener)
          /\ hist' = StoreRecord("AddListener", store, name, 0, <<>>)
    /\ nOps' = nOps + 1
    /\ UNCHANGED <<comp, mutex, goroutines, adapt, propVars, fcsVars, stepVars, numVars>>

NextStore ==
    \/ DoSet
    \/ DoSetAlias
    \/ DoAddListener

SpecStore == InitStore /\ [][NextStore]_vars
----------------------------------------------------------------------------
(* Properties of the propulsion system                                     *)

RunningFactorOf(p) ==
    IF p.Engine.IsRunning THEN RunningFactorOn ELSE RunningFactorOff

\* C5: after every Update the propeller thrust equals running_factor x
\* (propeller RPM / reference RPM) x (manifold pressure / reference manifold
\* pressure) x max thrust, where running_factor is 1.0 when the engine is
\* running at the end of that Update and 0.3 when it is off.
C5_ThrustUsesCurrentRunningFactor ==
    nUpdates > 0 =>
        ps.Propeller.Thrust =
            ThrustFormula(RunningFactorOf(ps), ps.Propeller.RPM,
                          ps.Engine.ManifoldPressure)

\* C6: the engine is off initially; while off its RPM is 0 and its manifold
\* pressure 29.92; after each Update it is running exactly when it was running
\* before or the Update's clamped throttle exceeds 0.1 (a one-way latch).
C6_StartLatch ==
    /\ [](nUpdates = 0 => ~ps.Engine.IsRunning)
    /\ [](~ps.Engine.IsRunning =>
             ps.Engine.RPM = 0 /\ ps.Engine.ManifoldPressure = AtmosphericMAP)
    /\ [][ps'.Engine.IsRunning <=>
             (ps.Engine.IsRunning \/ ps'.Engine.ThrottlePosition > StartThreshold)]_vars

\* C6 witness: the engine is still running after a later Update with throttle 0.
C6_Witness ==
    nUpdates >= 2 /\ ps.Engine.IsRunning /\ ps.Engine.ThrottlePosition = 0

\* C7: the total fuel contents equal the sum of the tank contents, never
\* increase from one Update to the next and never go below 0, and no tank's
\* contents go below 0.
C7_FuelNeverIncreasesNorNegative ==
    /\ [](/\ ps.FuelSystem.TotalContents = SumContents(ps.FuelSystem.Tanks)
          /\ ps.FuelSystem.TotalContents >= 0
          /\ \A i \in 1..Len(ps.FuelSystem.Tanks) :
                ps.FuelSystem.Tanks[i].Contents >= 0)
    /\ [][ps'.FuelSystem.TotalContents <= ps.FuelSystem.TotalContents]_vars

\* C7 witness: an Update whose draw exceeded what the tanks held: fuel was
\* flowing and every tank is now empty.
C7_Witness ==
    /\ nUpdates > 0
    /\ ps.FuelSystem.FuelFlow > 0
    /\ ps.FuelSystem.TotalContents = 0

----------------------------------------------------------------------------
(* Properties of the flight control system                                 *)

\* the position of rate group g in the order in which the groups were added
GroupIndex(order, g) == CHOOSE i \in 1..Len(order) : order[i] = g

\* C1: within one Execute every component of an earlier-added rate group
\* runs before any component of a later-added rate group.
C1_RateGroupsInInsertionOrder ==
    last.ran =>
        \A k, l \in 1..Len(last.trace) :
            k < l => GroupIndex(last.addOrder, last.trace[k].group)
                        <= GroupIndex(last.addOrder, last.trace[l].group)

\* C2: two systems built by CreateStandardP51DFlightControlSystem and handed
\* the same aircraft states and the same dt hold identical property stores
\* after every Execute.
C2_SameStoreOnEveryRun ==
    fcs.Properties.properties = fcs2.Properties.properties

CommandProperties ==
    { "fcs/aileron-cmd-norm", "fcs/elevator-cmd-norm", "fcs/rudder-cmd-norm",
      "fcs/throttle-cmd-norm", "fcs/flap-cmd-norm" }

CommandOf(state, name) ==
    CASE name = "fcs/aileron-cmd-norm" -> state.Controls.Aileron
      [] name = "fcs/elevator-cmd-norm" -> state.Controls.Elevator
      [] name = "fcs/rudder-cmd-norm" -> state.Controls.Rudder
      [] name = "fcs/throttle-cmd-norm" -> state.Controls.Throttle
      [] name = "fcs/flap-cmd-norm" -> state.Controls.Flaps

\* C9: an enabled Execute first copies the five pilot commands of the state
\* into their command properties, so every component that reads a command
\* property reads the state's command, and the control-surface fields of
\* the state receive the four surface-position properties as they are after
\* all components have run.
C9_CommandsInThenSurfacesOut ==
    last.ran =>
        /\ \A n \in CommandProperties : last.synced[n] = CommandOf(last.in, n)
        /\ \A k \in 1..Len(last.trace) :
              last.trace[k].input \in CommandProperties =>
                  last.trace[k].read = CommandOf(last.in, last.trace[k].input)
        /\ last.out.ControlSurfaces =
              [AileronLeft |-> last.props["fcs/left-aileron-pos-rad"],
               AileronRight |-> last.props["fcs/right-aileron-pos-rad"],
               Elevator |-> last.props["fcs/elevator-pos-rad"],
               Rudder |-> last.props["fcs/rudder-pos-rad"]]

\* C9 witness: the aileron command property held another value than the
\* state's aileron command when Execute was called, a component read the
\* command property, and the left aileron field of the state was moved.
C9_Witness ==
    /\ last.ran
    /\ last.before["fcs/aileron-cmd-norm"] # last.in.Controls.Aileron
    /\ \E k \in 1..Len(last.trace) : last.trace[k].input = "fcs/aileron-cmd-norm"
    /\ last.out.ControlSurfaces.AileronLeft # last.in.ControlSurfaces.AileronLeft

\* C10: after the state-to-property synchronization of an Execute the
\* attitude and flow-angle properties equal the roll, pitch, yaw, angle of
\* attack and sideslip of the state.
C10_AttitudeSynchronized ==
    last.ran =>
        /\ last.synced["attitude/phi-rad"] = last.in.Roll
        /\ last.synced["attitude/theta-rad"] = last.in.Pitch
        /\ last.synced["attitude/psi-rad"] = last.in.Yaw
        /\ last.synced["velocities/alpha-rad"] = last.in.Alpha
        /\ last.synced["velocities/beta-rad"] = last.in.Beta

----------------------------------------------------------------------------
(* Properties of the simulation step                                       *)

\* C3: a failed step returns, with the error, the state it was handed, and
\* neither that returned state nor the caller's state object differs from
\* the state handed in.
C3_FailedStepReturnsStateUnchanged ==
    (ret.called /\ ret.result.err) =>
        /\ ret.result.hasState
        /\ ret.result.state = ret.input
        /\ ac = ret.input

\* C4: the derivatives returned by a successful step are the total force
\* (aerodynamic + gravity + propulsion) divided by the mass.
C4_DerivativesFromTotalForce ==
    (ret.called /\ ~ret.result.err) =>
        /\ ret.result.hasDerivatives
        /\ ret.result.derivatives.VelocityDot =
              Vector3(Div((ret.aero.X + ret.gravity.X + ret.propulsion.X) * 1000, calculator.Mass),
                      Div((ret.aero.Y + ret.gravity.Y + ret.propulsion.Y) * 1000, calculator.Mass),
                      Div((ret.aero.Z + ret.gravity.Z + ret.propulsion.Z) * 1000, calculator.Mass))

----------------------------------------------------------------------------
(* Properties of the construction, the scheduling and the Reset of a       *)
(* flight control system                                                   *)

\* the number of times x occurs in the sequence seq
Occurrences(seq, x) == Cardinality({ i \in 1..Len(seq) : seq[i] = x })

\* C11: after any sequence of AddRateGroup and AddComponent calls, every
\* component of the master index is in the component list of exactly one
\* rate group, occurs in that list exactly once, and the rate group recorded
\* on the component is the name of that group.
C11_ExactlyOneRateGroup ==
    \A n \in DOMAIN fcs.Components :
        \E g \in DOMAIN fcs.RateGroups :
            /\ Occurrences(fcs.RateGroups[g].Components, fcs.Components[n]) = 1
            /\ fcs.Objects[fcs.Components[n]].RateGroup = g
            /\ \A h \in (DOMAIN fcs.RateGroups) \ {g} :
                  Occurrences(fcs.RateGroups[h].Components,
                              fcs.Components[n]) = 0

\* the names of the components of group g of the system f, in list order
NamesOf(f, g) ==
    [i \in 1..Len(f.RateGroups[g].Components) |->
        f.Objects[f.RateGroups[g].Components[i]].Name]

\* the names of the components that the trace shows as run for group g
RanIn(trace, g) ==
    LET t == SelectSeq(trace, LAMBDA e : e.group = g)
    IN [i \in 1..Len(t) |-> t[i].component]

\* the output properties of the components of the enabled groups of f
EnabledOutputs(f) ==
    UNION { { f.Objects[f.RateGroups[g].Components[i]].Output :
                i \in 1..Len(f.RateGroups[g].Components) } :
            g \in { h \in DOMAIN f.RateGroups : f.RateGroups[h].Enabled } }

\* C12: in one Execute each enabled rate group runs the components of its
\* list once each, in list order (the order in which they were added to
\* it); no component of a disabled rate group is run, and the output
\* property of such a component, unless a component that did run writes it
\* too, keeps the value it had when the rate groups started.
C12_EnabledGroupsRunInListOrder ==
    (last.op = "Execute" /\ last.ran) =>
        \A g \in DOMAIN last.sys.RateGroups :
            IF last.sys.RateGroups[g].Enabled
            THEN RanIn(last.trace, g) = NamesOf(last.sys, g)
            ELSE /\ RanIn(last.trace, g) = <<>>
                 /\ \A i \in 1..Len(last.sys.RateGroups[g].Components) :
                       LET out == last.sys.Objects[
                                     last.sys.RateGroups[g].Components[i]].Output
                       IN out \notin EnabledOutputs(last.sys) =>
                             last.props[out] = last.synced[out]

\* an Execute with a pilot command on the elevator in which an enabled
\* group ran two components and a disabled group held the elevator actuator
C12_Witness ==
    /\ last.op = "Execute" /\ last.ran
    /\ last.in.Controls.Elevator # 0
    /\ \E g \in DOMAIN last.sys.RateGroups :
          /\ last.sys.RateGroups[g].Enabled
          /\ Len(RanIn(last.trace, g)) = 2
    /\ \E g \in DOMAIN last.sys.RateGroups :
          /\ ~last.sys.RateGroups[g].Enabled
          /\ \E i \in 1..Len(last.sys.RateGroups[g].Components) :
                last.sys.Objects[last.sys.RateGroups[g].Components[i]].Name =
                    "elevator-actuator"

\* the component c as its constructor and setters make it
AsNew(c) ==
    IF c.Type = "ACTUATOR"
    THEN [NewActuatorComponent(c.Name, c.Inputs[1], c.Output) EXCEPT
             !.RateGroup = c.RateGroup, !.Enabled = c.Enabled,
             !.RateLimitIsInf = c.RateLimitIsInf, !.RateLimit = c.RateLimit,
             !.Lag = c.Lag, !.HysteresisWidth = c.HysteresisWidth,
             !.BiasValue = c.BiasValue]
    ELSE IF c.Type = "LAG_FILTER"
    THEN [NewLagFilterComponent(c.Name, c.Inputs[1], c.Output, c.C1) EXCEPT
             !.RateGroup = c.RateGroup, !.Enabled = c.Enabled]
    ELSE c

\* the value that component c writes to its output when it executes with
\* the value v on its input
OutputFor(c, pm, v, dt) ==
    Get(ComponentProcessor_Execute(c, Set(pm, c.Inputs[1], v), dt).pm, c.Output)

\* the components of f that are in the component list of some rate group
Scheduled(f) ==
    UNION { { f.RateGroups[g].Components[i] :
                i \in 1..Len(f.RateGroups[g].Components) } :
            g \in DOMAIN f.RateGroups }

\* C13: after Reset the execution counter is zero and every actuator and
\* lag filter of the system is as a newly constructed component with the
\* same parameters (output 0, not initialized), and gives for every input
\* the output that the new component gives.
C13_ResetRestoresInitialConfiguration ==
    last.op = "Reset" =>
        /\ fcs.TotalExecutions = 0
        /\ \A ref \in Scheduled(fcs) :
              /\ fcs.Objects[ref] = AsNew(fcs.Objects[ref])
              /\ \A v \in {-500, 30, 1000}, dt \in FcsDts :
                    OutputFor(fcs.Objects[ref], fcs.Properties, v, dt) =
                    OutputFor(AsNew(fcs.Objects[ref]), fcs.Properties, v, dt)

\* a Reset of a system that had executed, with an actuator that had moved
\* and had accepted an input, and a lag filter that had moved
C13_Witness ==
    /\ last.op = "Reset"
    /\ last.sys.TotalExecutions > 0
    /\ \E ref \in Scheduled(last.sys) :
          /\ last.sys.Objects[ref].Type = "ACTUATOR"
          /\ last.sys.Objects[ref].initialized
          /\ last.sys.Objects[ref].currentValue # 0
          /\ last.sys.Objects[ref].previousInput # 0
    /\ \E ref \in Scheduled(last.sys) :
          /\ last.sys.Objects[ref].Type = "LAG_FILTER"
          /\ last.sys.Objects[ref].output # 0

----------------------------------------------------------------------------
(* Properties of the actuator                                              *)

\* C14: an actuator with a finite positive rate limit R, run with a fixed
\* dt from its initial or reset state, changes its output by at most R x dt
\* from one Execute to the next, whatever the inputs, the lag and the
\* hysteresis band; with R = 10, dt = 0.05, no lag and no hysteresis, and
\* the input 1, the output is 0.5 after the first Execute and 1.0 after the
\* next.
C14_OutputRateLimited ==
    (hist.op = "Execute" /\ ~hist.before.RateLimitIsInf
                         /\ hist.before.RateLimit > 0) =>
        /\ Abs(comp.currentValue - hist.before.currentValue) <=
              Div(hist.before.RateLimit * hist.dt, 1000)
        /\ Get(store, comp.Output) = comp.currentValue
        /\ (/\ hist.before.RateLimit = 10000 /\ hist.dt = 50
            /\ hist.before.Lag = 0 /\ hist.before.HysteresisWidth = 0
            /\ hist.input = 1000) =>
              /\ ~hist.before.initialized => comp.currentValue = 500
              /\ (hist.before.initialized /\ hist.before.currentValue = 500)
                    => comp.currentValue = 1000

\* the second Execute of the step from 0 to 1 with R = 10 and dt = 0.05
C14_Witness ==
    /\ hist.op = "Execute"
    /\ hist.before.RateLimit = 10000 /\ ~hist.before.RateLimitIsInf
    /\ hist.dt = 50
    /\ hist.before.Lag = 0 /\ hist.before.HysteresisWidth = 0
    /\ hist.input = 1000
    /\ hist.before.initialized /\ hist.before.currentValue = 500
    /\ comp.currentValue = 1000

\* an Execute of an actuator with a rate limit, a lag and a hysteresis band
\* in which the target moved by the full R x dt
C14_WitnessLag ==
    /\ hist.op = "Execute"
    /\ ~hist.before.RateLimitIsInf /\ hist.before.RateLimit > 0
    /\ hist.before.Lag > 0 /\ hist.before.HysteresisWidth > 0
    /\ hist.before.initialized
    /\ Abs(comp.targetValue - hist.before.targetValue) =
          Div(hist.before.RateLimit * hist.dt, 1000)
    /\ comp.currentValue # hist.before.currentValue

----------------------------------------------------------------------------
(* Properties of the property store                                        *)

\* the name under which Set and Get look a name up: aliases are resolved
\* once
Resolved(pm, name) ==
    IF name \in DOMAIN pm.aliases THEN pm.aliases[name] ELSE name

\* C16: in every alias configuration SetAlias can produce, Get(k) right
\* after Set(k, v) returns v, Get of a name that was never written returns
\* 0, and Set(a, v) through an alias a of k makes both Get(a) and Get(k)
\* return v.
C16_ReadWriteLaw ==
    /\ \A n \in StoreNames :
          Resolved(store, n) \notin DOMAIN store.properties
              => Get(store, n) = 0
    /\ hist.op = "Set" =>
          /\ Get(store, hist.name) = hist.value
          /\ hist.name \in DOMAIN store.aliases =>
                Get(store, store.aliases[hist.name]) = hist.value

\* the names reached from name by following exactly k aliases
RECURSIVE Follow(_, _, _)
Follow(aliases, name, k) ==
    IF k = 0 THEN {name}
    ELSE IF name \in DOMAIN aliases
         THEN Follow(aliases, aliases[name], k - 1)
         ELSE {}

HasAliasCycle(aliases) ==
    \E a \in DOMAIN aliases, k \in 1..Cardinality(DOMAIN aliases) :
        a \in Follow(aliases, a, k)

\* C17: SetAlias refuses an alias that would close a cycle, so the alias
\* map never contains a cycle.
C17_NoAliasCycle == ~HasAliasCycle(store.aliases)

\* the number of calls posted to the listener l
CallsOf(calls, l) ==
    Cardinality({i \in DOMAIN calls : calls[i].listener = l})

\* the listeners registered for name
RegisteredFor(pm, name) ==
    IF name \in DOMAIN pm.listeners
    THEN {pm.listeners[name][i] : i \in DOMAIN pm.listeners[name]}
    ELSE {}

\* C18: a Set that writes the value the property already holds posts no
\* listener call; a Set that changes the value or creates the property
\* posts exactly one call, carrying the value written, to each listener
\* registered for the name.
C18_NotifiedExactlyOnChange ==
    hist.op = "Set" =>
        IF Resolved(hist.before, hist.name) \in DOMAIN hist.before.properties
           /\ hist.before.properties[Resolved(hist.before, hist.name)]
                 = hist.value
        THEN hist.calls = <<>>
        ELSE /\ \A l \in RegisteredFor(hist.before, hist.name) :
                    CallsOf(hist.calls, l) = 1
             /\ \A i \in DOMAIN hist.calls :
                    hist.calls[i].value = hist.value

----------------------------------------------------------------------------
(* Writers, readers and listeners of one property store.  Every call of    *)
(* Set or Get runs in a goroutine of its own and takes one step at a time. *)

MaxCalls == 2
MaxListeners == 2

\* the property the callers write and read, and the value they write
LockName == "fcs/elevator-cmd-norm"
LockValue == 1000

ListenerKinds == {"return", "block", "get", "set", "mirror"}

\* the goroutines there can be: the callers, and the listener calls of the
\* one Set that changes the value
MaxGoroutines == MaxCalls + MaxListeners

\* the store after AddListener(LockName, l) for each l of ls in turn
RECURSIVE WithListeners(_, _)
WithListeners(pm, ls) ==
    IF ls = <<>> THEN pm
    ELSE WithListeners(AddListener(pm, LockName, Head(ls)), Tail(ls))

InitLock ==
    /\ \E n \in 0..MaxListeners : \E ls \in [1..n -> ListenerKinds] :
          store = WithListeners(NewPropertyManager, ls)
    /\ mutex = NewRWMutex
    /\ goroutines = <<>>
    /\ nOps = 0
    /\ hist = NoOperation
    /\ comp = NewActuatorComponent("", "", "")
    /\ adapt = NoAdaptiveIntegrate
    /\ PropAtRest
    /\ FcsAtRest
    /\ StepAtRest
    /\ NumAtRest

\* a caller calls pm.Set(LockName, LockValue)
DoCallSet ==
    /\ nOps < MaxCalls
    /\ goroutines' = Append(goroutines,
                            NewGoroutine(SetBody(LockName, LockValue),
                                         "caller"))
    /\ nOps' = nOps + 1
    /\ UNCHANGED <<store, mutex, hist, comp, adapt, propVars, fcsVars, stepVars, numVars>>

\* a caller calls pm.Get(LockName)
DoCallGet ==
    /\ nOps < MaxCalls
    /\ goroutines' = Append(goroutines,
                            NewGoroutine(GetBody(LockName), "caller"))
    /\ nOps' = nOps + 1
    /\ UNCHANGED <<store, mutex, hist, comp, adapt, propVars, fcsVars, stepVars, numVars>>

\* pm.mutex.Lock(), first half
LockStep(g) ==
    /\ NextOp(goroutines, g) = "Lock"
    /\ CanLock(mutex)
    /\ mutex' = [mutex EXCEPT !.w = g]
    /\ goroutines' = Advance(goroutines, g)
    /\ UNCHANGED <<store, nOps, hist, comp, adapt, propVars, fcsVars, stepVars, numVars>>

\* pm.mutex.Lock(), second half
LockedStep(g) ==
    /\ NextOp(goroutines, g) = "Locked"
    /\ CanEnter(mutex)
    /\ goroutines' = Advance(goroutines, g)
    /\ UNCHANGED <<store, mutex, nOps, hist, comp, adapt, propVars, fcsVars, stepVars, numVars>>

\* the body of Set: the write and the go statements
WriteStep(g) ==
    /\ NextOp(goroutines, g) = "Write"
    /\ store' = Set(store, Head(goroutines[g].todo).name,
                    Head(goroutines[g].todo).value)
    /\ goroutines' = Notify(goroutines, g,
                            SetNotifies(store, Head(goroutines[g].todo).name,
                                        Head(goroutines[g].todo).value))
    /\ UNCHANGED <<mutex, nOps, hist, comp, adapt, propVars, fcsVars, stepVars, numVars>>

\* the deferred pm.mutex.Unlock()
UnlockStep(g) ==
    /\ NextOp(goroutines, g) = "Unlock"
    /\ mutex' = [mutex EXCEPT !.w = 0]
    /\ goroutines' = Advance(goroutines, g)
    /\ UNCHANGED <<store, nOps, hist, comp, adapt, propVars, fcsVars, stepVars, numVars>>

\* pm.mutex.RLock()
RLockStep(g) ==
    /\ NextOp(goroutines, g) = "RLock"
    /\ CanRLock(mutex)
    /\ mutex' = [mutex EXCEPT !.r = @ \cup {g}]
    /\ goroutines' = Advance(goroutines, g)
    /\ UNCHANGED <<store, nOps, hist, comp, adapt, propVars, fcsVars, stepVars, numVars>>

\* the body of Get
ReadStep(g) ==
    /\ NextOp(goroutines, g) = "Read"
    /\ goroutines' = Advance(goroutines, g)
    /\ UNCHANGED <<store, mutex, nOps, hist, comp, adapt, propVars, fcsVars, stepVars, numVars>>

\* the deferred pm.mutex.RUnlock()
RUnlockStep(g) ==
    /\ NextOp(goroutines, g) = "RUnlock"
    /\ mutex' = [mutex EXCEPT !.r = @ \ {g}]
    /\ goroutines' = Advance(goroutines, g)
    /\ UNCHANGED <<store, nOps, hist, comp, adapt, propVars, fcsVars, stepVars, numVars>>

\* a step of goroutine g; a goroutine in a listener that never returns has
\* none
Run(g) ==
    /\ g \in 1..Len(goroutines)
    /\ \/ LockStep(g)
       \/ LockedStep(g)
       \/ WriteStep(g)
       \/ UnlockStep(g)
       \/ RLockStep(g)
       \/ ReadStep(g)
       \/ RUnlockStep(g)

NextLock ==
    \/ DoCallSet
    \/ DoCallGet
    \/ \E g \in 1..MaxGoroutines : Run(g)

\* the scheduler runs every goroutine that can make a step
SpecLock ==
    /\ InitLock
    /\ [][NextLock]_vars
    /\ \A g \in 1..MaxGoroutines : WF_vars(Run(g))

\* goroutine g has started and has not returned
Running(g) == g \in 1..Len(goroutines) /\ goroutines[g].todo # <<>>

\* goroutine g has returned
Returned(g) == g \in 1..Len(goroutines) /\ goroutines[g].todo = <<>>

\* goroutine g has the store's lock, for writing or for reading
HoldsLock(g) == mutex.w = g \/ g \in mutex.r

\* a listener callback starts without the lock, and a callback inside a
\* listener that never returns holds no lock
CallbacksHoldNoLock ==
    \A g \in 1..Len(goroutines) :
        /\ NextOp(goroutines, g) \in {"Lock", "RLock", "Block"}
              => ~HoldsLock(g)
        /\ HoldsLock(g) => Running(g)

\* C19: listener callbacks run in goroutines of their own that do not hold
\* the store's lock; every Set and Get of a caller returns, also when a
\* listener never returns, and every listener that calls Get or Set on the
\* store returns: no interleaving of writers and listeners deadlocks.
C19_NoDeadlock ==
    /\ []CallbacksHoldNoLock
    /\ \A g \in 1..MaxGoroutines :
          (Running(g) /\ goroutines[g].listener # "block") ~> Returned(g)

\* the Set of a caller has returned and so has a listener that called Get
\* or Set on the store, while a listener that never returns is still there
C19_Witness ==
    /\ \E g \in 1..Len(goroutines) :
          /\ goroutines[g].listener = "caller"
          /\ Returned(g)
          /\ store.properties[LockName] = LockValue
    /\ \E g \in 1..Len(goroutines) :
          goroutines[g].listener = "block" /\ Running(g)
    /\ \E g \in 1..Len(goroutines) :
          goroutines[g].listener \in {"get", "set", "mirror"} /\ Returned(g)

----------------------------------------------------------------------------
(* Adaptive time stepping: a caller asks for a step, and may ask for the   *)
(* next one with the step size the last call proposed.                     *)

MaxIntegrations == 3

\* GetOrder of the Euler, Adams-Bashforth and Runge-Kutta integrators
Orders == {1, 2, 4}

\* requested step sizes (microseconds)
TargetDts == {1, 100, 10000, 16667, 100000, 200000}

\* growth of the estimated error with the step (millionths per
\* millisecond); 0 is a state whose derivatives vanish
ErrorRates == {0, 1, 20, 3000}

AdaptiveRecord(ats, errorPerMs, targetDt) ==
    [called |-> TRUE, ats |-> ats, errorPerMs |-> errorPerMs,
     targetDt |-> targetDt,
     nextDt |-> AdaptiveIntegrate(ats, errorPerMs, targetDt)]

InitAdaptive ==
    /\ \E order \in Orders :
          adapt = [NoAdaptiveIntegrate EXCEPT !.ats = NewAdaptiveTimeStep(order)]
    /\ nOps = 0
    /\ comp = NewActuatorComponent("", "", "")
    /\ hist = NoOperation
    /\ StoreAtRest
    /\ PropAtRest
    /\ FcsAtRest
    /\ StepAtRest
    /\ NumAtRest

\* AdaptiveIntegrate with a step size the caller chooses
DoAdaptiveIntegrate ==
    /\ nOps < MaxIntegrations
    /\ \E targetDt \in TargetDts, errorPerMs \in ErrorRates :
          adapt' = AdaptiveRecord(adapt.ats, errorPerMs, targetDt)
    /\ nOps' = nOps + 1
    /\ UNCHANGED <<comp, store, hist, mutex, goroutines, propVars, fcsVars, stepVars, numVars>>

\* AdaptiveIntegrate with the step size the last call proposed
DoAdaptiveIntegrateNext ==
    /\ nOps < MaxIntegrations
    /\ adapt.called
    /\ \E errorPerMs \in ErrorRates :
          adapt' = AdaptiveRecord(adapt.ats, errorPerMs, adapt.nextDt)
    /\ nOps' = nOps + 1
    /\ UNCHANGED <<comp, store, hist, mutex, goroutines, propVars, fcsVars, stepVars, numVars>>

NextAdaptive ==
    \/ DoAdaptiveIntegrate
    \/ DoAdaptiveIntegrateNext

SpecAdaptive == InitAdaptive /\ [][NextAdaptive]_vars

\* C20: the step size AdaptiveIntegrate proposes for the next step lies in
\* [MinDt, MaxDt], whatever the requested step size and the estimated
\* error.
C20_ProposedStepWithinBounds ==
    adapt.called =>
        /\ adapt.ats.MinDt <= adapt.nextDt
        /\ adapt.nextDt <= adapt.ats.MaxDt

----------------------------------------------------------------------------
(* The loop of AdaptiveIntegrate, one pass at a time.                      *)

MaxLoopCalls == 2

\* requested step sizes (microseconds) and growth of the estimated error
\* (millionths per millisecond); with the largest the error exceeds the
\* tolerance at every step size
LoopTargetDts == {1, 3, 100, 1000}
LoopErrorRates == {0, 20, 3000, 2000000}

\* the call AdaptiveIntegrate(state, derivatives, targetDt) at the top of
\* its loop
NewAdaptiveCall(ats, errorPerMs, targetDt) ==
    [pc |-> "loop", ats |-> ats, errorPerMs |-> errorPerMs,
     targetDt |-> targetDt, currentDt |-> targetDt,
     estimates |-> 0, usedDt |-> 0, nextDt |-> 0, bottomed |-> FALSE]

AdaptivePass_NoFloor(l, error) ==
    IF error <= l.ats.Tolerance
    THEN [l EXCEPT !.pc = "returned", !.estimates = @ + 1,
                   !.usedDt = l.currentDt,
                   !.nextDt = IF error > 0
                              THEN SuggestedDt(l.ats, l.currentDt,
                                       PowRatio(l.ats.Tolerance, error,
                                                l.ats.Order),
                                       PowScale(l.ats.Order))
                              ELSE l.currentDt]
    ELSE [l EXCEPT !.estimates = @ + 1, !.currentDt = @ \div 2]

\* one pass of the loop, error being the estimate made in it: the call
\* returns, or goes round with half the step
AdaptivePass(l, error) ==
    IF error <= l.ats.Tolerance
    THEN [l EXCEPT !.pc = "returned", !.estimates = @ + 1,
                   !.usedDt = l.currentDt,
                   !.nextDt = IF error > 0
                              THEN SuggestedDt(l.ats, l.currentDt,
                                       PowRatio(l.ats.Tolerance, error,
                                                l.ats.Order),
                                       PowScale(l.ats.Order))
                              ELSE l.currentDt]
    ELSE IF l.currentDt \div 2 < l.ats.MinDt
         THEN [l EXCEPT !.pc = "returned", !.estimates = @ + 1,
                        !.currentDt = @ \div 2,
                        !.usedDt = l.ats.MinDt, !.nextDt = l.ats.MinDt,
                        !.bottomed = TRUE]
         ELSE [l EXCEPT !.estimates = @ + 1, !.currentDt = @ \div 2]

InitAdaptiveLoop ==
    /\ \E order \in Orders :
          adapt = [NewAdaptiveCall(NewAdaptiveTimeStep(order), 0, 0)
                       EXCEPT !.pc = "idle"]
    /\ nOps = 0
    /\ comp = NewActuatorComponent("", "", "")
    /\ hist = NoOperation
    /\ StoreAtRest
    /\ PropAtRest
    /\ FcsAtRest
    /\ StepAtRest
    /\ NumAtRest

\* the caller calls AdaptiveIntegrate
DoAdaptiveCall ==
    /\ adapt.pc # "loop"
    /\ nOps < MaxLoopCalls
    /\ \E targetDt \in LoopTargetDts, errorPerMs \in LoopErrorRates :
          adapt' = NewAdaptiveCall(adapt.ats, errorPerMs, targetDt)
    /\ nOps' = nOps + 1
    /\ UNCHANGED <<comp, store, hist, mutex, goroutines, propVars, fcsVars, stepVars, numVars>>

\* the call makes one pass of its loop
DoAdaptivePass ==
    /\ adapt.pc = "loop"
    /\ adapt' = AdaptivePass(adapt,
                             EstimateError(adapt.errorPerMs, adapt.currentDt))
    /\ UNCHANGED <<nOps, comp, store, hist, mutex, goroutines, propVars, fcsVars, stepVars, numVars>>

NextAdaptiveLoop ==
    \/ DoAdaptiveCall
    \/ DoAdaptivePass

\* the call runs until it returns
SpecAdaptiveLoop ==
    /\ InitAdaptiveLoop
    /\ [][NextAdaptiveLoop]_vars
    /\ WF_vars(DoAdaptivePass)

\* the number of halvings that take dt below MinDt
RECURSIVE Halvings(_)
Halvings(dt) == IF dt \div 2 < MinDt THEN 1 ELSE 1 + Halvings(dt \div 2)

AdaptiveCallBounded ==
    adapt.pc \in {"loop", "returned"} =>
        /\ adapt.estimates <= Halvings(adapt.targetDt)
        /\ adapt.bottomed =>
              /\ adapt.currentDt < adapt.ats.MinDt
              /\ adapt.usedDt = adapt.ats.MinDt
              /\ adapt.nextDt = adapt.ats.MinDt
        /\ (adapt.pc = "returned" /\ ~adapt.bottomed) =>
              /\ adapt.usedDt = adapt.currentDt
              /\ EstimateError(adapt.errorPerMs, adapt.currentDt)
                    <= adapt.ats.Tolerance
        /\ adapt.pc = "returned" =>
              adapt.nextDt = AdaptiveIntegrate(adapt.ats, adapt.errorPerMs,
                                               adapt.targetDt)

\* C21: with MinDt > 0 every call of AdaptiveIntegrate returns; it halves
\* the step after each error estimate above the tolerance, integrates with
\* exactly MinDt as soon as the halved step is below MinDt, and makes no
\* more error estimates than there are halvings from the requested step
\* down to MinDt.
C21_AdaptiveIntegrateReturns ==
    /\ []AdaptiveCallBounded
    /\ (adapt.pc = "loop") ~> (adapt.pc = "returned")

\* a call that halved its step down to MinDt and returned
C21_Witness ==
    /\ adapt.pc = "returned"
    /\ adapt.bottomed
    /\ adapt.targetDt = 100
    /\ adapt.estimates = Halvings(100)

----------------------------------------------------------------------------
(* A trajectory integrated with one Adams-Bashforth integrator             *)

MaxIntegrates == 2

VelocityDots == {0, 4, -8}
AngularRateDots == {0, 4}
IntegrateDts == {1000, 2000}

InitTrajectory ==
    /\ integrator = NewAdamsBashforth2Integrator
    /\ traj = NewTrajectory(State1(0, 0, 30000, 0))
    /\ eval = NoEvaluation
    /\ LibAtRest
    /\ PropAtRest
    /\ FcsAtRest
    /\ StepAtRest

\* the integrator with the derivatives d written to the object ref
WithDerivatives(ab, ref, d) == [ab EXCEPT !.Derivs[ref] = d]

\* the record of the step of the trajectory t made by Integrate, which
\* returned r
Integrated(t, ab, d, dt, r) ==
    [op |-> "Integrate", state |-> r.state, steps |-> t.steps + 1,
     first |-> ~ab.hasPrevious, before |-> t.state,
     f |-> d, dt |-> dt,
     hasPrev |-> t.steps > 0, prevVelocity |-> t.lastVelocity,
     fPrev |-> t.lastF,
     lastVelocity |-> t.state.Velocity, lastF |-> d]

\* the caller computes the derivatives into one of its objects and makes
\* the next step of the trajectory
DoIntegrate ==
    /\ traj.steps < MaxIntegrates
    /\ \E ref \in 1..2, a \in VelocityDots, alpha \in AngularRateDots,
          dt \in IntegrateDts :
          /\ integrator' =
                AdamsBashforth2Integrator_Integrate(
                    WithDerivatives(integrator, ref, Derivatives1(a, alpha)),
                    traj.state, ref, dt).ab
          /\ traj' = Integrated(traj, integrator, Derivatives1(a, alpha), dt,
                        AdamsBashforth2Integrator_Integrate(
                            WithDerivatives(integrator, ref,
                                            Derivatives1(a, alpha)),
                            traj.state, ref, dt))
    /\ UNCHANGED <<eval, libVars, propVars, fcsVars, stepVars>>

\* the caller has the error of a step estimated with the integrator, which
\* leaves the trajectory where it is
DoEstimateError ==
    /\ traj.steps < MaxIntegrates
    /\ traj.op # "EstimateError"
    /\ \E ref \in 1..2, a \in VelocityDots, dt \in IntegrateDts :
          integrator' =
              EstimateError_Integrator(
                  WithDerivatives(integrator, ref, Derivatives1(a, 0)),
                  traj.state, ref, dt)
    /\ traj' = [traj EXCEPT !.op = "EstimateError"]
    /\ UNCHANGED <<eval, libVars, propVars, fcsVars, stepVars>>

NextTrajectory ==
    \/ DoIntegrate
    \/ DoEstimateError

SpecTrajectory == InitTrajectory /\ [][NextTrajectory]_vars

\* C22: the first Integrate call on an Adams-Bashforth integrator returns
\* the Euler result; every later call advances position, velocity and
\* angular rate by dt/2 x (3 x f_n - f_prev), f_n being the derivative
\* passed to the call and f_prev the derivative of the preceding step of
\* the trajectory.
C22_AdamsBashforthStep ==
    traj.op = "Integrate" =>
        /\ traj.first =>
              traj.state = EulerIntegrator_Integrate(traj.before, traj.f,
                                                     traj.dt)
        /\ (~traj.first /\ traj.hasPrev) =>
              /\ traj.state.Position = traj.before.Position
                    + Div((3 * traj.before.Velocity - traj.prevVelocity)
                              * traj.dt, 2000)
              /\ traj.state.Velocity = traj.before.Velocity
                    + Div((3 * traj.f.VelocityDot - traj.fPrev.VelocityDot)
                              * traj.dt, 2000)
              /\ traj.state.AngularRate = traj.before.AngularRate
                    + Div((3 * traj.f.AngularRateDot
                              - traj.fPrev.AngularRateDot) * traj.dt, 2000)

----------------------------------------------------------------------------
(* Tables.  Breakpoints, stored values and queries are whole numbers; an   *)
(* interpolated value is rounded towards zero.  Sequences are indexed from *)
(* 1 where the slices of the program are indexed from 0.                   *)

Table1D(indices, values) == [Indices |-> indices, Values |-> values]

\* a + frac * (b - a) for frac = num / den
Lerp(a, b, num, den) == a + Div(num * (b - a), den)

\* the first i with Indices[i] <= x <= Indices[i+1]
Bracket(indices, x) ==
    CHOOSE i \in 1..(Len(indices) - 1) :
        /\ x >= indices[i] /\ x <= indices[i + 1]
        /\ \A j \in 1..(i - 1) : ~(x >= indices[j] /\ x <= indices[j + 1])

HasBracket(indices, x) ==
    \E i \in 1..(Len(indices) - 1) : x >= indices[i] /\ x <= indices[i + 1]

\* the loop of interpolate1D
Interpolated1D(t, x) ==
    IF HasBracket(t.Indices, x)
    THEN Lerp(t.Values[Bracket(t.Indices, x)],
              t.Values[Bracket(t.Indices, x) + 1],
              x - t.Indices[Bracket(t.Indices, x)],
              t.Indices[Bracket(t.Indices, x) + 1]
                  - t.Indices[Bracket(t.Indices, x)])
    ELSE t.Values[Len(t.Indices)]

interpolate1D_NoClamp(t, x) ==
    IF Len(t.Indices) = 0 THEN 0 ELSE Interpolated1D(t, x)

interpolate1D(t, x) ==
    IF Len(t.Indices) = 0 THEN 0
    ELSE IF x <= t.Indices[1] THEN t.Values[1]
    ELSE IF x >= t.Indices[Len(t.Indices)] THEN t.Values[Len(t.Indices)]
    ELSE Interpolated1D(t, x)

\* a Table2D as parse2DTableData builds it (one data row for each row
\* index, of as many values as the line holds), or the nil it returns
Table2D(rowIndices, colIndices, data) ==
    [IsNil |-> FALSE, RowIndices |-> rowIndices, ColIndices |-> colIndices,
     Data |-> data]

NilTable2D == [IsNil |-> TRUE, RowIndices |-> <<>>, ColIndices |-> <<>>,
               Data |-> <<>>]

\* findIndices: the two positions and the fraction between them
Found(i1, i2, num, den) == [i1 |-> i1, i2 |-> i2, num |-> num, den |-> den]

findIndices(indices, value) ==
    IF Len(indices) = 0 THEN Found(1, 1, 0, 1)
    ELSE IF value <= indices[1] THEN Found(1, 1, 0, 1)
    ELSE IF value >= indices[Len(indices)]
         THEN Found(Len(indices), Len(indices), 0, 1)
    ELSE IF HasBracket(indices, value)
         THEN IF indices[Bracket(indices, value) + 1]
                    # indices[Bracket(indices, value)]
              THEN Found(Bracket(indices, value), Bracket(indices, value) + 1,
                         value - indices[Bracket(indices, value)],
                         indices[Bracket(indices, value) + 1]
                             - indices[Bracket(indices, value)])
              ELSE Found(Bracket(indices, value), Bracket(indices, value) + 1,
                         0, 1)
         ELSE Found(Len(indices), Len(indices), 0, 1)

\* t.Data[r][c]: the value, or the run-time panic of an index out of range
Cell(t, r, c) ==
    IF r <= Len(t.Data) /\ c <= Len(t.Data[r])
    THEN [value |-> t.Data[r][c], panic |-> FALSE]
    ELSE [value |-> 0, panic |-> TRUE]

Interpolated(value, panic) ==
    [value |-> IF panic THEN 0 ELSE value, panic |-> panic]

\* the interpolation of interpolate2D once its checks have passed
Bilinear(t, r, c) ==
    IF Len(t.ColIndices) = 1 \/ c.i1 = c.i2
    THEN IF Len(t.RowIndices) = 1 \/ r.i1 = r.i2
         THEN Cell(t, r.i1, c.i1)
         ELSE Interpolated(
                  Lerp(Cell(t, r.i1, c.i1).value, Cell(t, r.i2, c.i1).value,
                       r.num, r.den),
                  Cell(t, r.i1, c.i1).panic \/ Cell(t, r.i2, c.i1).panic)
    ELSE IF Len(t.RowIndices) = 1 \/ r.i1 = r.i2
         THEN Interpolated(
                  Lerp(Cell(t, r.i1, c.i1).value, Cell(t, r.i1, c.i2).value,
                       c.num, c.den),
                  Cell(t, r.i1, c.i1).panic \/ Cell(t, r.i1, c.i2).panic)
         ELSE Interpolated(
                  Lerp(Lerp(Cell(t, r.i1, c.i1).value,
                            Cell(t, r.i1, c.i2).value, c.num, c.den),
                       Lerp(Cell(t, r.i2, c.i1).value,
                            Cell(t, r.i2, c.i2).value, c.num, c.den),
                       r.num, r.den),
                  \/ Cell(t, r.i1, c.i1).panic \/ Cell(t, r.i1, c.i2).panic
                  \/ Cell(t, r.i2, c.i1).panic \/ Cell(t, r.i2, c.i2).panic)

interpolate2D(t, row, col) ==
    IF t.IsNil \/ Len(t.Data) = 0 THEN Interpolated(0, FALSE)
    ELSE IF Len(t.RowIndices) = 0 \/ Len(t.ColIndices) = 0
         THEN Interpolated(0, FALSE)
    ELSE IF \E i \in 1..Len(t.Data) : Len(t.Data[i]) = 0
         THEN Interpolated(0, FALSE)
    ELSE IF findIndices(t.RowIndices, row).i1 > Len(t.Data)
            \/ findIndices(t.RowIndices, row).i2 > Len(t.Data)
         THEN Interpolated(0, FALSE)
    ELSE IF findIndices(t.ColIndices, col).i1 > Len(t.Data[1])
            \/ findIndices(t.ColIndices, col).i2 > Len(t.Data[1])
         THEN Interpolated(0, FALSE)
    ELSE Bilinear(t, findIndices(t.RowIndices, row),
                  findIndices(t.ColIndices, col))

----------------------------------------------------------------------------
(* Functions.  An Operation holds its property names, its literal values,  *)
(* its table and, in Sub, the nested operations that are set, by kind.     *)
(* Values are whole numbers.                                               *)

\* the kinds of operation, in the order in which EvaluateFunction looks
\* for them
OpKinds ==
    <<"product", "sum", "difference", "quotient", "pow", "abs",
      "sin", "cos", "tan", "asin", "acos", "atan">>

\* the nested operations that evaluateOperation evaluates, in its order
NestedKinds == <<"product", "sum", "difference", "quotient">>

NoTable ==
    [present |-> FALSE, IndependentVar |-> <<>>, Data1D |-> Table1D(<<>>, <<>>),
     Data2D |-> NilTable2D]

\* a table element with its independentVar elements and its parsed data
Table(independentVar, data1D, data2D) ==
    [present |-> TRUE, IndependentVar |-> independentVar, Data1D |-> data1D,
     Data2D |-> data2D]

Operation(property, value, table, sub) ==
    [Property |-> property, Value |-> value, Table |-> table, Sub |-> sub]

\* no nested operation is set
NoSub == [k \in {} |-> 0]

\* a Function: the operations that are set, by kind, and the table
Function(sub, table) == [Sub |-> sub, Table |-> table]

\* tables of three independent variables are not modelled: their
\* dimension is left at 0 like that of every other number of variables
ParseTable(t) ==
    [Dimension |-> IF Len(t.IndependentVar) = 1 THEN 1
                   ELSE IF Len(t.IndependentVar) = 2 THEN 2 ELSE 0,
     IndependentVars |-> t.IndependentVar,
     Data1D |-> t.Data1D, Data2D |-> t.Data2D]

\* properties[name] of a Go map: 0 for a name that is not a key
MapValue(properties, name) ==
    IF name \in DOMAIN properties THEN properties[name] ELSE 0

Evaluated(value, err, panic) ==
    [value |-> IF err # "" \/ panic THEN 0 ELSE value, err |-> err,
     panic |-> panic]

InterpolateTable(pt, inputs) ==
    IF pt.Dimension = 1
    THEN IF Len(inputs) # 1 THEN Evaluated(0, "1D table requires 1 input", FALSE)
         ELSE Evaluated(interpolate1D(pt.Data1D, inputs[1]), "", FALSE)
    ELSE IF pt.Dimension = 2
    THEN IF Len(inputs) # 2 THEN Evaluated(0, "2D table requires 2 inputs", FALSE)
         ELSE Evaluated(interpolate2D(pt.Data2D, inputs[1], inputs[2]).value,
                        "",
                        interpolate2D(pt.Data2D, inputs[1], inputs[2]).panic)
    ELSE Evaluated(0, "unsupported table dimension", FALSE)

\* the table of a function or of an operation evaluated on the properties
EvaluateTable(t, properties) ==
    InterpolateTable(ParseTable(t),
                     [i \in 1..Len(t.IndependentVar) |->
                         MapValue(properties, t.IndependentVar[i])])

RECURSIVE Product(_)
Product(values) ==
    IF values = <<>> THEN 1 ELSE Head(values) * Product(Tail(values))

RECURSIVE Sum(_)
Sum(values) == IF values = <<>> THEN 0 ELSE Head(values) + Sum(Tail(values))

\* result /= v for every v of values that is not 0
RECURSIVE Quotient(_, _)
Quotient(result, values) ==
    IF values = <<>> THEN result
    ELSE Quotient(IF Head(values) # 0 THEN Div(result, Head(values))
                  ELSE result, Tail(values))

\* the trigonometric functions, to the nearest whole number, for the
\* arguments -1, 0 and 1; no other argument is offered to them
Trig(opType, x) ==
    IF x \notin {-1, 0, 1} THEN 0
    ELSE IF opType = "sin" THEN x
    ELSE IF opType = "cos" THEN 1
    ELSE IF opType = "tan" THEN 2 * x
    ELSE IF opType = "asin" THEN 2 * x
    ELSE IF opType = "acos" THEN (IF x = -1 THEN 3 ELSE IF x = 0 THEN 2 ELSE 0)
    ELSE x

performOperation(opType, values) ==
    IF Len(values) = 0 THEN 0
    ELSE IF opType = "product" THEN Product(values)
    ELSE IF opType = "sum" THEN Sum(values)
    ELSE IF opType = "difference"
         THEN IF Len(values) < 2 THEN values[1]
              ELSE values[1] - Sum(Tail(values))
    ELSE IF opType = "quotient"
         THEN IF Len(values) < 2 THEN values[1]
              ELSE Quotient(values[1], Tail(values))
    ELSE IF opType = "pow"
         THEN IF Len(values) < 2 THEN values[1]
              ELSE IF values[2] >= 0 THEN Power(values[1], values[2])
              ELSE IF values[1] = 0 THEN 0
              ELSE Div(1, Power(values[1], -values[2]))
    ELSE IF opType = "abs" THEN Abs(values[1])
    ELSE IF opType \in {"sin", "cos", "tan", "asin", "acos", "atan"}
         THEN Trig(opType, values[1])
    ELSE values[1]

\* the values of the properties of the list, 0 standing for a property
\* that is not a key of the map
RECURSIVE PropertyValues_ZeroForAbsent(_, _)
PropertyValues_ZeroForAbsent(property, properties) ==
    IF property = <<>> THEN <<>>
    ELSE <<MapValue(properties, Head(property))>>
         \o PropertyValues_ZeroForAbsent(Tail(property), properties)

\* the values of the properties of the list that are keys of the map
RECURSIVE PropertyValues(_, _)
PropertyValues(property, properties) ==
    IF property = <<>> THEN <<>>
    ELSE (IF Head(property) \in DOMAIN properties
          THEN <<properties[Head(property)]>> ELSE <<>>)
         \o PropertyValues(Tail(property), properties)

\* the values of the table, if it is there and evaluates without an error
TableValues(t, properties) ==
    IF t.present /\ EvaluateTable(t, properties).err = ""
    THEN <<EvaluateTable(t, properties).value>> ELSE <<>>

\* the table of the operation makes the run-time panic
TablePanics(t, properties) ==
    t.present /\ EvaluateTable(t, properties).panic

\* evaluateOperation: the values it collects (CollectedValues), whether
\* the evaluation panics, and what it returns
RECURSIVE CollectedValues(_, _)
RECURSIVE evaluateOperation(_, _, _)
RECURSIVE NestedValues(_, _, _)
RECURSIVE NestedPanics(_, _)

\* the values of the nested operations of the kinds kinds[i..] that are
\* set and evaluate without an error
NestedValues(op, properties, kinds) ==
    IF kinds = <<>> THEN <<>>
    ELSE (IF Head(kinds) \in DOMAIN op.Sub
             /\ evaluateOperation(op.Sub[Head(kinds)], Head(kinds),
                                  properties).err = ""
          THEN <<evaluateOperation(op.Sub[Head(kinds)], Head(kinds),
                                   properties).value>>
          ELSE <<>>)
         \o NestedValues(op, properties, Tail(kinds))

NestedPanics(op, properties) ==
    \E i \in 1..Len(NestedKinds) :
        /\ NestedKinds[i] \in DOMAIN op.Sub
        /\ evaluateOperation(op.Sub[NestedKinds[i]], NestedKinds[i],
                             properties).panic

CollectedValues(op, properties) ==
    PropertyValues(op.Property, properties)
        \o op.Value
        \o NestedValues(op, properties, NestedKinds)
        \o TableValues(op.Table, properties)

evaluateOperation(op, opType, properties) ==
    IF NestedPanics(op, properties) \/ TablePanics(op.Table, properties)
    THEN Evaluated(0, "", TRUE)
    ELSE IF Len(CollectedValues(op, properties)) = 0
         THEN Evaluated(0, "no values for operation", FALSE)
         ELSE Evaluated(performOperation(opType,
                                         CollectedValues(op, properties)),
                        "", FALSE)

\* the first kind, in the order of OpKinds, whose operation is set
FirstKind(f) ==
    OpKinds[CHOOSE i \in 1..Len(OpKinds) :
                /\ OpKinds[i] \in DOMAIN f.Sub
                /\ \A j \in 1..(i - 1) : OpKinds[j] \notin DOMAIN f.Sub]

EvaluateFunction(f, properties) ==
    IF DOMAIN f.Sub # {}
    THEN evaluateOperation(f.Sub[FirstKind(f)], FirstKind(f), properties)
    ELSE IF f.Table.present THEN EvaluateTable(f.Table, properties)
    ELSE Evaluated(0, "no valid operation in function", FALSE)

----------------------------------------------------------------------------
(* Functions and tables evaluated on their own                             *)

MaxTableLen == 3

\* property maps: both properties set, one of them missing, none set
PropertyMaps ==
    { [n \in {"aero/alpha-deg", "aero/mach"} |->
          IF n = "aero/alpha-deg" THEN 2 ELSE 3],
      [n \in {"aero/alpha-deg"} |-> 2],
      [n \in {} |-> 0] }

LiftTable ==
    Table(<<"aero/alpha-deg">>, Table1D(<<0, 10>>, <<0, 50>>), NilTable2D)

\* a table element without independentVar elements
BareTable == Table(<<>>, Table1D(<<0, 10>>, <<0, 50>>), NilTable2D)

\* nested operations: none, a sum without operands, a sum, an abs
NestedChoices ==
    { NoSub,
      [k \in {"sum"} |-> Operation(<<>>, <<>>, NoTable, NoSub)],
      [k \in {"sum"} |-> Operation(<<>>, <<3>>, NoTable, NoSub)],
      [k \in {"abs"} |-> Operation(<<>>, <<-3>>, NoTable, NoSub)] }

Operations ==
    { Operation(property, value, table, sub) :
        property \in { <<>>, <<"aero/alpha-deg">>, <<"aero/mach">>,
                       <<"aero/mach", "aero/alpha-deg">> },
        value \in { <<>>, <<4>>, <<10, 3>> },
        table \in { NoTable, LiftTable, BareTable },
        sub \in NestedChoices }

TopKinds == {"product", "sum", "difference", "quotient", "pow", "abs"}

Functions ==
    { Function([k \in {kind} |-> op], NoTable) :
          kind \in TopKinds, op \in Operations }
        \cup { Function(NoSub, t) : t \in {NoTable, LiftTable, BareTable} }

\* the functions offered to the axes of an aerodynamics section
AxisFunctions ==
    { Function([k \in {"product"} |->
                   Operation(<<"aero/alpha-deg">>, <<4>>, NoTable, NoSub)],
               NoTable),
      Function([k \in {"product"} |->
                   Operation(<<>>, <<2>>, NoTable,
                             [k2 \in {"sum"} |->
                                 Operation(<<>>, <<>>, NoTable, NoSub)])],
               NoTable),
      Function([k \in {"sum"} |->
                   Operation(<<>>, <<2>>, BareTable, NoSub)], NoTable),
      Function([k \in {"sum"} |-> Operation(<<>>, <<>>, NoTable, NoSub)],
               NoTable),
      Function([k \in {"sum"} |-> Operation(<<>>, <<7>>, LiftTable, NoSub)],
               NoTable),
      Function(NoSub, BareTable),
      Function(NoSub, LiftTable),
      Function(NoSub, NoTable) }

Breakpoints == {0, 10, 20}
StoredValues == {-4, 6}
Queries == {-5, 0, 5, 10, 13, 20, 25}

\* the tables parse1DTableData can build: any breakpoints in any order
Tables1D ==
    UNION { { Table1D(indices, values) :
                  indices \in [1..n -> Breakpoints],
                  values \in [1..n -> StoredValues] } : n \in 1..MaxTableLen }

\* tables parse2DTableData can build: rows of equal and of different
\* lengths
Tables2D ==
    { Table2D(<<0, 10>>, <<0, 10>>, << <<1, 2>>, <<3, 4>> >>),
      Table2D(<<0, 10>>, <<0, 10>>, << <<1, 2>>, <<3>> >>),
      Table2D(<<0, 10>>, <<0, 10>>, << <<1>>, <<3, 4>> >>),
      Table2D(<<0, 10>>, <<0, 10, 20>>, << <<1, 2, 5>>, <<3, 4>> >>),
      Table2D(<<0, 10, 20>>, <<0, 10>>, << <<1, 2>>, <<3, 4>>, <<6>> >>),
      Table2D(<<0, 10>>, <<0>>, << <<1>>, <<3>> >>),
      Table2D(<<0, 10>>, <<0, 10>>, << <<1, 2>>, <<>> >>) }

\* the aerodynamics section with the functions fs in its LIFT and in its
\* ROLL axis, each function standing for its evaluation
RECURSIVE EvaluatedFunctions(_, _)
EvaluatedFunctions(fs, properties) ==
    IF fs = <<>> THEN <<>>
    ELSE <<AeroFunction(EvaluateFunction(Head(fs), properties).value,
                        EvaluateFunction(Head(fs), properties).err # "")>>
         \o EvaluatedFunctions(Tail(fs), properties)

SectionOf(fs, properties) ==
    NewForcesMomentsCalculator(
        JSBSimConfig(TRUE,
            <<AeroAxis("LIFT", EvaluatedFunctions(fs, properties)),
              AeroAxis("ROLL", EvaluatedFunctions(fs, properties))>>))

InitEval ==
    /\ eval = NoEvaluation
    /\ integrator = NewAdamsBashforth2Integrator
    /\ traj = NewTrajectory(State1(0, 0, 0, 0))
    /\ LibAtRest
    /\ PropAtRest
    /\ FcsAtRest
    /\ StepAtRest

DoEvaluateFunction ==
    /\ eval.op = ""
    /\ \E f \in Functions, properties \in PropertyMaps :
          eval' = [op |-> "EvaluateFunction", f |-> f,
                   properties |-> properties,
                   result |-> EvaluateFunction(f, properties)]
    /\ UNCHANGED <<integrator, traj, libVars, propVars, fcsVars, stepVars>>

\* the forces and moments stage on a section whose LIFT and ROLL axes hold
\* two functions
DoCalculateForcesMoments ==
    /\ eval.op = ""
    /\ \E f1 \in AxisFunctions, f2 \in AxisFunctions,
          properties \in PropertyMaps :
          eval' = [op |-> "CalculateForcesMoments", fs |-> <<f1, f2>>,
                   properties |-> properties,
                   forces |-> calculateAerodynamicForces(
                                  SectionOf(<<f1, f2>>, properties),
                                  NewAircraftState),
                   moments |-> calculateMoments(
                                  SectionOf(<<f1, f2>>, properties),
                                  NewAircraftState, [Torque |-> 0])]
    /\ UNCHANGED <<integrator, traj, libVars, propVars, fcsVars, stepVars>>

DoInterpolate1D ==
    /\ eval.op = ""
    /\ \E t \in Tables1D, x \in Queries :
          eval' = [op |-> "interpolate1D", t |-> t, x |-> x,
                   result |-> interpolate1D(t, x)]
    /\ UNCHANGED <<integrator, traj, libVars, propVars, fcsVars, stepVars>>

DoInterpolate2D ==
    /\ eval.op = ""
    /\ \E t \in Tables2D, row \in Queries, col \in Queries :
          eval' = [op |-> "interpolate2D", t |-> t, row |-> row, col |-> col,
                   result |-> interpolate2D(t, row, col)]
    /\ UNCHANGED <<integrator, traj, libVars, propVars, fcsVars, stepVars>>

NextEval ==
    \/ DoEvaluateFunction
    \/ DoCalculateForcesMoments
    \/ DoInterpolate1D
    \/ DoInterpolate2D

SpecEval == InitEval /\ [][NextEval]_vars

----------------------------------------------------------------------------
(* Properties of the evaluation of functions and tables                    *)

\* a failure arises in the evaluation of the operation: it collects no
\* values, its table fails, or a failure arises in one of the nested
\* operations that are evaluated
RECURSIVE FailureInside(_, _)
FailureInside(op, properties) ==
    \/ Len(CollectedValues(op, properties)) = 0
    \/ op.Table.present /\ EvaluateTable(op.Table, properties).err # ""
    \/ \E i \in 1..Len(NestedKinds) :
          /\ NestedKinds[i] \in DOMAIN op.Sub
          /\ FailureInside(op.Sub[NestedKinds[i]], properties)

\* what the function adds to its axis: its value, or 0 when a failure
\* arises anywhere in its evaluation
Contribution(f, properties) ==
    IF DOMAIN f.Sub # {}
    THEN IF FailureInside(f.Sub[FirstKind(f)], properties) THEN 0
         ELSE EvaluateFunction(f, properties).value
    ELSE EvaluateFunction(f, properties).value

Contributions(fs, properties) ==
    NewForcesMomentsCalculator(
        JSBSimConfig(TRUE,
            <<AeroAxis("LIFT",
                       [i \in 1..Len(fs) |->
                           AeroFunction(Contribution(fs[i], properties), FALSE)]),
              AeroAxis("ROLL",
                       [i \in 1..Len(fs) |->
                           AeroFunction(Contribution(fs[i], properties), FALSE)])>>))

\* C23: a dimension mismatch or an empty expression anywhere in the
\* evaluation of an axis function, at the top level, in a nested operation
\* or in an embedded table, makes the function contribute 0 to its axis;
\* the other functions and axes are evaluated and the stage does not fail.
C23_FailingFunctionContributesZero ==
    eval.op = "CalculateForcesMoments" =>
        /\ ~eval.forces.err
        /\ ~eval.moments.err
        /\ eval.forces =
              calculateAerodynamicForces(
                  Contributions(eval.fs, eval.properties), NewAircraftState)
        /\ eval.moments =
              calculateMoments(Contributions(eval.fs, eval.properties),
                               NewAircraftState, [Torque |-> 0])

\* C24: a property that an operation references and that is absent from
\* the property values takes part in the reduction as 0, and no error is
\* raised.
C24_AbsentPropertyIsZero ==
    (/\ eval.op = "EvaluateFunction"
     /\ DOMAIN eval.f.Sub # {}
     /\ \E i \in 1..Len(eval.f.Sub[FirstKind(eval.f)].Property) :
           eval.f.Sub[FirstKind(eval.f)].Property[i]
               \notin DOMAIN eval.properties) =>
        /\ eval.result.err = ""
        /\ Len(CollectedValues(eval.f.Sub[FirstKind(eval.f)], eval.properties))
              >= Len(eval.f.Sub[FirstKind(eval.f)].Property)
        /\ SubSeq(CollectedValues(eval.f.Sub[FirstKind(eval.f)],
                                  eval.properties),
                  1, Len(eval.f.Sub[FirstKind(eval.f)].Property))
              = PropertyValues_ZeroForAbsent(
                    eval.f.Sub[FirstKind(eval.f)].Property, eval.properties)

\* C25: the evaluation of a function fails only when no operation field is
\* set: with an operation field set it returns a value, without an error
\* and without a panic, and an operation that collects no values reduces
\* to the empty value of its kind, 1 for a product.
C25_FailsOnlyWithoutOperation ==
    (eval.op = "EvaluateFunction" /\ DOMAIN eval.f.Sub # {}) =>
        /\ eval.result.err = ""
        /\ ~eval.result.panic
        /\ (/\ CollectedValues(eval.f.Sub[FirstKind(eval.f)],
                               eval.properties) = <<>>
            /\ FirstKind(eval.f) = "product") => eval.result.value = 1

\* every nested operation of the operation evaluates without an error,
\* and so does its table
OperandsEvaluate(op, properties) ==
    /\ \A k \in DOMAIN op.Sub :
          evaluateOperation(op.Sub[k], k, properties).err = ""
    /\ op.Table.present => EvaluateTable(op.Table, properties).err = ""
    /\ \A i \in 1..Len(op.Property) : op.Property[i] \in DOMAIN properties

\* the operand list has the values of the properties first, then the
\* literal values, then the value of the table, then one value for each
\* nested operation that is set
InListedOrder(op, values, properties) ==
    /\ Len(values) = Len(op.Property) + Len(op.Value)
                        + (IF op.Table.present THEN 1 ELSE 0)
                        + Cardinality(DOMAIN op.Sub)
    /\ \A i \in 1..Len(op.Property) :
          values[i] = properties[op.Property[i]]
    /\ \A i \in 1..Len(op.Value) :
          values[Len(op.Property) + i] = op.Value[i]
    /\ op.Table.present =>
          values[Len(op.Property) + Len(op.Value) + 1]
              = EvaluateTable(op.Table, properties).value

\* C26: the operand list of an operation holds the values of the
\* referenced properties, then the literal values, then the result of the
\* embedded table, then the results of the nested operations of every kind
\* that is set, and the reduction is applied to the list in that order.
C26_OperandOrder ==
    (/\ eval.op = "EvaluateFunction"
     /\ DOMAIN eval.f.Sub # {}
     /\ OperandsEvaluate(eval.f.Sub[FirstKind(eval.f)], eval.properties)) =>
        /\ InListedOrder(eval.f.Sub[FirstKind(eval.f)],
                         CollectedValues(eval.f.Sub[FirstKind(eval.f)],
                                         eval.properties),
                         eval.properties)
        /\ eval.result.value =
              performOperation(FirstKind(eval.f),
                  CollectedValues(eval.f.Sub[FirstKind(eval.f)],
                                  eval.properties))

\* the table with every row that is shorter than the list of column
\* breakpoints filled up with 0
Padded(t) ==
    [t EXCEPT !.Data =
        [r \in 1..Len(t.Data) |->
            [c \in 1..Max(Len(t.ColIndices), Len(t.Data[r])) |->
                IF c <= Len(t.Data[r]) THEN t.Data[r][c] ELSE 0]]]

\* C27: interpolating a 2D table whose rows differ in length reads no row
\* past its end, whatever the query point, and treats the entries missing
\* from a short row as 0.
C27_RaggedRowsAreSafe ==
    eval.op = "interpolate2D" =>
        /\ ~eval.result.panic
        /\ eval.result.value =
              interpolate2D(Padded(eval.t), eval.row, eval.col).value

StrictlyIncreasing(indices) ==
    \A i \in 1..(Len(indices) - 1) : indices[i] < indices[i + 1]

Between(v, a, b) == (a <= v /\ v <= b) \/ (b <= v /\ v <= a)

C28_WitnessClamped ==
    /\ eval.op = "interpolate1D"
    /\ eval.t = Table1D(<<0, 10>>, <<6, -4>>)
    /\ eval.x = -5
    /\ eval.result = 6

----------------------------------------------------------------------------
(* Properties of an engine that has run out of fuel                        *)

AllTanksEmpty(p) ==
    \A i \in 1..Len(p.FuelSystem.Tanks) : p.FuelSystem.Tanks[i].Contents = 0

\* C29: running out of fuel never stops the engine: once every tank is
\* empty, after each further Update the engine is still running, the
\* thrust and the reported fuel flow are positive and every tank is still
\* at 0; the part of a draw that no tank can supply is discarded, the
\* total is 0 and never negative.
C29_EngineRunsWithoutFuel ==
    /\ [][(ps.Engine.IsRunning /\ AllTanksEmpty(ps) /\ nUpdates' = nUpdates + 1) =>
             /\ ps'.Engine.IsRunning
             /\ ps'.Propeller.Thrust > 0
             /\ ps'.FuelSystem.FuelFlow > 0
             /\ AllTanksEmpty(ps')
             /\ ps'.FuelSystem.TotalContents = 0]_vars
    /\ [][nUpdates' = nUpdates + 1 =>
             \E dt \in DtInputs :
                ps'.FuelSystem.TotalContents =
                    Max(0, ps.FuelSystem.TotalContents
                              - FuelBurn(ps'.FuelSystem.FuelFlow, dt))]_vars

\* the second Update on the tank list of three tanks, at idle throttle,
\* draws less than the first Update can have left: with the tanks empty
\* after it, they were empty before it
IdleUpdateFoundTanksEmpty ==
    [][(/\ nUpdates = 1
        /\ nUpdates' = 2
        /\ Len(ps.FuelSystem.Tanks) = 3
        /\ ps'.Engine.ThrottlePosition = 0
        /\ AllTanksEmpty(ps')) => AllTanksEmpty(ps)]_vars

\* C29 witness: the engine runs at idle throttle, with thrust and fuel
\* flow, after a second Update that found every tank empty
C29_Witness ==
    /\ nUpdates = 2
    /\ Len(ps.FuelSystem.Tanks) = 3
    /\ ps.Engine.ThrottlePosition = 0
    /\ ps.Engine.IsRunning
    /\ AllTanksEmpty(ps)
    /\ ps.Propeller.Thrust > 0
    /\ ps.FuelSystem.FuelFlow > 0

----------------------------------------------------------------------------
(* Properties of the listeners of aliased names                            *)

\* one call for each listener registered under name, in the order of
\* registration, carrying name and value
CallsTo(pm, name, value) ==
    IF name \in DOMAIN pm.listeners
    THEN [i \in 1..Len(pm.listeners[name]) |->
             [listener |-> pm.listeners[name][i], name |-> name,
              value |-> value]]
    ELSE <<>>

\* C30: listeners are matched on the resolved name: a Set through an alias
\* that changes the value calls the listeners registered under the target
\* of the alias, with the name of the target; no Set, through an alias or
\* through the target, calls a listener under a name that is an alias at
\* the time of the write.
C30_ListenersOfResolvedName ==
    hist.op = "Set" =>
        /\ (/\ hist.name \in DOMAIN hist.before.aliases
            /\ Get(hist.before, hist.name) # hist.value) =>
              hist.calls = CallsTo(hist.before,
                                   hist.before.aliases[hist.name], hist.value)
        /\ \A i \in DOMAIN hist.calls :
              hist.calls[i].name \notin DOMAIN hist.before.aliases

====
